---- MODULE Spec2Model ----
(***************************************************************************)
(* A model of the Template class of view-cache (index.js, lib/utils.js):   *)
(* the template type registry (create / trackType), the generated adders   *)
(* and getters, the normalization pipeline (load / normalize / parse),     *)
(* the layout resolver (lazyLayouts / applyLayout / utils.pickLayout) and  *)
(* the render orchestrator (preprocess / render).                          *)
(*                                                                         *)
(* JavaScript values are modelled as follows.  A property that is absent   *)
(* or undefined is the string Undefined.  Template content is a sequence   *)
(* of text tokens; the layout body tag is the token Body.  A thrown        *)
(* exception is a result of kind "throw"; a call that never returns is a   *)
(* result of kind "hang".                                                  *)
(***************************************************************************)
EXTENDS Naturals, Integers, Sequences, FiniteSets, TLC

VARIABLES
    cache,          \* this.cache: plural |-> (key |-> template record)
    templateType,   \* this.templateType: role |-> sequence of plurals
    layoutSettings, \* this.layoutSettings: ext |-> (name |-> layout record)
    parsers,        \* this.parsers: dotted ext |-> sequence of parser names
    delims,         \* this.delims: ext or name |-> delimiter pair
    data,           \* this.cache.data: the process-wide data
    options,        \* this.options (the entries the model reads)
    proto,          \* methods create() has put on Template.prototype
    created,        \* history: the create() calls that returned, in order
    nextId,         \* counter behind utils.generateId
    engines,        \* the engine cache: dotted ext |-> engine object
    ret             \* outcome of the last call made on the instance

vars == <<cache, templateType, layoutSettings, parsers, delims, data, options,
          proto, created, nextId, engines, ret>>

----------------------------------------------------------------------------
(* Values *)

Undefined == "undefined"

Null == "null"

\* String(obj) of a plain object: what an object becomes when used as a name.
ObjectValue == "[object Object]"

Body == "{% body %}"

\* A leading token that stands for a front-matter block `layout: <name>`.
FrontMatter == [a |-> "---layout: a---", b |-> "---layout: b---"]

IsFrontMatter(tok) == \E n \in DOMAIN FrontMatter : FrontMatter[n] = tok

FrontMatterLayout(tok) == CHOOSE n \in DOMAIN FrontMatter : FrontMatter[n] = tok

Range(s) == {s[i] : i \in DOMAIN s}

\* The empty object {}.
EmptyObj == [k \in {} |-> Undefined]

\* _.extend(target, source) on mappings: source wins on common keys.
extend(target, source) ==
    [k \in DOMAIN target \cup DOMAIN source |->
        IF k \in DOMAIN source THEN source[k] ELSE target[k]]

\* utils.hasOwn on a model mapping.
hasOwn(o, k) == k \in DOMAIN o

----------------------------------------------------------------------------
(* Bounds *)

\* Most create() calls that return, the three of defaultTemplates included.
MaxCreates == 5

\* Largest number of anonymous ids render may generate.
MaxIds == 1

\* Most render calls made with locals or on pages that include partials.
MaxRenders == 2

\* Most parsers in the registry, the four of defaultParsers included.
MaxParsers == 7

----------------------------------------------------------------------------
(* Results of calls *)

\* op: the method called; target: the collection or extension it worked on;
\* key: the record key or name passed; kind: "return", "throw" or "hang";
\* err: the error thrown; value: a returned string (content or name);
\* recs / colls: a returned record or collection ({} when none was returned);
\* ext: the extension the call was given or resolved; args: the
\* record-shaped value the caller passed ({} when it passed none); locals:
\* the locals the caller passed ({} when none); delims: the delimiters the
\* engine was given; context: the locals object the engine was given ({}
\* when no engine was called); inner: the contexts of the renders made by
\* inclusion helpers during the call; via: how an error reached the caller
\* ("throw": thrown out of the call, "return": returned as a value,
\* "callback": handed to the callback; undefined when there was none);
\* calls: the functions of the engine the call invoked; fault: what the
\* engine did when it was invoked ("none": it rendered); stages: the steps
\* of preprocess and render the call entered, in the order it entered them.
Result(op, target, key, kind, err, value, recs, colls) ==
    [op |-> op, target |-> target, key |-> key, kind |-> kind, err |-> err,
     value |-> value, recs |-> recs, colls |-> colls, ext |-> Undefined,
     args |-> {}, locals |-> {}, delims |-> Undefined, context |-> {},
     inner |-> {}, via |-> Undefined, calls |-> {}, fault |-> "none",
     stages |-> <<>>]

\* The call returned undefined (or a value the model does not read).
Returned(op, target, key) ==
    Result(op, target, key, "return", Undefined, <<>>, {}, {})

Threw(op, target, key, err) ==
    Result(op, target, key, "throw", err, <<>>, {}, {})

----------------------------------------------------------------------------
(* Template type registry *)

RoleOptions == [isRenderable : BOOLEAN, isLayout : BOOLEAN, isPartial : BOOLEAN]

NoRole == [isRenderable |-> FALSE, isLayout |-> FALSE, isPartial |-> FALSE]

\* { isRenderable: true }
Renderable == [NoRole EXCEPT !.isRenderable = TRUE]

\* { isLayout: true }
Layout == [NoRole EXCEPT !.isLayout = TRUE]

\* A plural argument as create() sees it: its typeof and, for a string, its text.
PluralArg(t, s) == [typeof |-> t, str |-> s]

\* trackType with the else-if chain of the older _setViewType: one role only.
trackTypeExclusive(type, plural, opts) ==
    IF opts.isRenderable
        THEN [type EXCEPT !.renderable = Append(@, plural)]
    ELSE IF opts.isLayout
        THEN [type EXCEPT !.layout = Append(@, plural)]
    ELSE [type EXCEPT !.partial = Append(@, plural)]

\* trackType(plural, options): three independent tests, each pushing plural.
trackType(type, plural, opts) ==
    LET t1 == IF opts.isRenderable
                 THEN [type EXCEPT !.renderable = Append(@, plural)] ELSE type
        t2 == IF opts.isLayout
                 THEN [t1 EXCEPT !.layout = Append(@, plural)] ELSE t1
    IN  IF opts.isPartial \/ (~opts.isRenderable /\ ~opts.isLayout)
           THEN [t2 EXCEPT !.partial = Append(@, plural)] ELSE t2

\* this.cache[plural] = {} of the older create: the collection is reset.
createCollectionReset(c, plural) ==
    [p \in DOMAIN c \cup {plural} |-> IF p = plural THEN EmptyObj ELSE c[p]]

\* this.cache[plural] = this.cache[plural] || {}
createCollection(c, plural) ==
    [p \in DOMAIN c \cup {plural} |-> IF p \in DOMAIN c THEN c[p] ELSE EmptyObj]

\* The three methods create() assigns on Template.prototype.
defineMethods(pr, type, plural, opts) ==
    [singular |-> extend(pr.singular, [t \in {type} |-> plural]),
     plural   |-> extend(pr.plural, [p \in {plural} |-> opts]),
     getter   |-> extend(pr.getter, [t \in {type} |-> plural])]

\* create(type, plural, options)
Create(type, plural, opts) ==
    /\ Len(created) < MaxCreates
    /\ IF plural.typeof # "string"
          THEN /\ ret' = Threw("create", Undefined, type, "A plural form must be defined")
               /\ UNCHANGED <<engines, cache, templateType, proto, created>>
          ELSE /\ cache' = createCollection(cache, plural.str)
               /\ templateType' = trackType(templateType, plural.str, opts)
               /\ proto' = defineMethods(proto, type, plural.str, opts)
               /\ created' = Append(created, [type |-> type,
                                               typeof |-> plural.typeof,
                                               plural |-> plural.str,
                                               options |-> opts])
               /\ ret' = Returned("create", plural.str, type)
    /\ UNCHANGED <<engines, layoutSettings, parsers, delims, data, options, nextId>>

\* create(type, plural, options) called on another Template instance: its
\* collection, type lists and helper are the other instance's own, which
\* this instance never reads; the three methods go on Template.prototype,
\* which the instances share.
CreateElsewhere(type, plural, opts) ==
    /\ proto' = defineMethods(proto, type, plural, opts)
    /\ ret' = Returned("create elsewhere", plural, type)
    /\ UNCHANGED <<engines, cache, templateType, layoutSettings, parsers,
                   delims, data, options, created, nextId>>

----------------------------------------------------------------------------
(* Normalization pipeline *)

OptionsOf(role, layout, ext, engine) ==
    [isRenderable |-> role.isRenderable, isLayout |-> role.isLayout,
     isPartial |-> role.isPartial, layout |-> layout, ext |-> ext,
     engine |-> engine, hasLayout |-> FALSE, delims |-> Undefined]

\* What a caller hands to an adder or to render: a key and a record-shaped
\* value (a string value is one with only content).  path, layout, ext and
\* engine are Undefined when the caller does not declare them.
Input(key, path, content, layout, dataLayout, localsLayout, optLayout, ext) ==
    [key |-> key, path |-> path, content |-> content, layout |-> layout,
     ext |-> Undefined, engine |-> Undefined,
     data |-> [layout |-> dataLayout, name |-> Undefined],
     locals |-> [layout |-> localsLayout, name |-> Undefined],
     options |-> OptionsOf(NoRole, optLayout, ext, Undefined)]

\* The same value with a `name` entry in its data and in its locals.
WithNames(in, dataName, localsName) ==
    [in EXCEPT !.data.name = dataName, !.locals.name = localsName]

\* The same value with delimiters declared in its options.
WithDelims(in, dl) == [in EXCEPT !.options.delims = dl]

\* loader.load(key, value, locals, options) of load-templates: a mapping of
\* the key to a record whose path defaults to the key.
Loader(in) ==
    [k \in {in.key} |->
        [path |-> IF in.path = Undefined THEN in.key ELSE in.path,
         content |-> in.content, layout |-> in.layout,
         ext |-> in.ext, engine |-> in.engine,
         data |-> in.data, locals |-> in.locals, options |-> in.options]]

\* path.basename for the keys of the model: the part after the last slash.
Basenames == [k \in {"posts/home", "src/posts/home"} |-> "home"]

\* A renameKey that drops only the first directory of a key.
renameKeyOneLevel(key) ==
    IF key = "src/posts/home" THEN "posts/home"
    ELSE IF key = "posts/home" THEN "home"
    ELSE key

\* The renameKey option set by defaultOptions.
renameKey(key) == IF key \in DOMAIN Basenames THEN Basenames[key] ELSE key

\* Extensions written without their dot, and their dotted form.
Dotted == [e \in {"*", "md", "html", "hbs", "a"} |-> "." \o e]

\* utils.formatExt: a dot is put before an ext that lacks one.
formatExt(ext) == IF ext \in DOMAIN Dotted THEN Dotted[ext] ELSE ext

\* The value pickExt yields when it reads thisArg.option and thisArg is
\* undefined: the call throws a TypeError.
TypeError == "TypeError"

\* utils.pickExt(template, options, thisArg).  optExt and optEngine are the
\* ext and engine of its second argument; bound tells whether a third
\* argument was passed.  A truthy template.engine returns template.ext.
pickExt(template, optEngine, optExt, bound) ==
    IF template.engine # Undefined THEN template.ext
    ELSE IF template.ext # Undefined THEN template.ext
    ELSE IF template.options.engine # Undefined THEN template.options.engine
    ELSE IF template.options.ext # Undefined THEN template.options.ext
    ELSE IF optEngine # Undefined THEN optEngine
    ELSE IF optExt # Undefined THEN optExt
    ELSE IF bound THEN formatExt(options.viewEngine)
    ELSE TypeError

\* lazyLayouts(ext, options): a Layouts instance is made once per ext.
lazyLayouts(ls, ext) ==
    IF hasOwn(ls, ext) THEN ls ELSE extend(ls, [e \in {ext} |-> EmptyObj])

\* A parser object as registerParser pushes it: the function it holds as
\* parse and as parseSync (undefined when it has none).
ParserObject(parse, parseSync) == [parse |-> parse, parseSync |-> parseSync]

\* getParsers(ext, sync): of the stack registered under the dotted ext, the
\* parseSync functions when sync is given and the parse functions
\* otherwise, without the undefined ones; [] when nothing is registered.
getParsers(ps, ext, sync) ==
    IF ~hasOwn(ps, formatExt(ext)) THEN <<>>
    ELSE SelectSeq([i \in DOMAIN ps[formatExt(ext)] |->
                       IF sync THEN ps[formatExt(ext)][i].parseSync
                       ELSE ps[formatExt(ext)][i].parse],
                   LAMBDA f : f # Undefined)

\* registerParser that stores the stack under the ext as it was given.
registerParserAsGiven(ps, ext, fn, sync) ==
    extend(ps, [e \in {ext} |->
                   Append(IF hasOwn(ps, ext) THEN ps[ext] ELSE <<>>,
                          IF sync THEN ParserObject(Undefined, fn)
                          ELSE ParserObject(fn, Undefined))])

\* registerParser(ext, fn) and registerParser(ext, fn, true) for a function
\* fn: the ext gets its dot, the stack is made when there is none, and the
\* function is pushed as parseSync when the last argument is true and as
\* parse otherwise.
registerParser(ps, ext, fn, sync) ==
    extend(ps, [e \in {formatExt(ext)} |->
                   Append(IF hasOwn(ps, formatExt(ext))
                             THEN ps[formatExt(ext)] ELSE <<>>,
                          IF sync THEN ParserObject(Undefined, fn)
                          ELSE ParserObject(fn, Undefined))])

\* parser-front-matter's parseSync: a leading front-matter block is moved
\* from the content into data; content without one is left as it is.
parseFrontMatter(rec) ==
    IF rec.content # <<>> /\ IsFrontMatter(Head(rec.content))
       THEN [rec EXCEPT !.data.layout = FrontMatterLayout(Head(rec.content)),
                        !.content = Tail(rec.content)]
       ELSE rec

\* Parser functions of the application: each appends its name to the
\* content of the record it is called on.
ParserFns == {"f", "g"}

\* runParser(template, fn): _.transform visits the own keys of the record
\* and fn is called on the first visit only, so fn is called once on a
\* record with own keys and not at all on a record without.
runParser(rec, fn) ==
    IF DOMAIN rec = {} THEN rec
    ELSE IF fn = "front-matter" THEN parseFrontMatter(rec)
    ELSE IF fn \in ParserFns THEN [rec EXCEPT !.content = Append(@, fn)]
    ELSE rec

RECURSIVE runStack(_, _)
\* stack.forEach(fn => runParser(template, fn)) of parse.
runStack(rec, stack) ==
    IF stack = <<>> THEN rec
    ELSE runStack(runParser(rec, Head(stack)), Tail(stack))

\* parse(template, stack) for a record and an array stack.  The ext is
\* picked by utils.pickExt(template, this): the instance has no own ext or
\* engine property and no thisArg is passed; a record without own keys
\* declares no ext.
parse(rec, stack) ==
    IF DOMAIN rec = {} \/ pickExt(rec, Undefined, Undefined, FALSE) = TypeError
       THEN [threw |-> TRUE, value |-> rec]
       ELSE [threw |-> FALSE, value |-> runStack(rec, stack)]

\* utils.isLayout(value): the record's type was created with isLayout.
isLayout(rec) == rec.options.isLayout

\* utils.isPartial(value): the record's type was created with isPartial,
\* or with neither isRenderable nor isLayout.
isPartial(rec) ==
    rec.options.isPartial \/ (~rec.options.isRenderable /\ ~rec.options.isLayout)

\* layouts' setLayout(mapping): every entry is stored under its key.
setLayout(registry, template) == extend(registry, template)

\* value.options = extend({}, options, value.options) where options are the
\* role options the type was created with: a role the value already carries
\* is kept, a role it lacks is taken from the type.
mergeOptions(value, opts) ==
    [value EXCEPT !.options.isRenderable = @ \/ opts.isRenderable,
                  !.options.isLayout = @ \/ opts.isLayout,
                  !.options.isPartial = @ \/ opts.isPartial]

\* normalize(template, options) for the one-entry mapping the loader returns.
\* Yields whether it threw, the normalized mapping and layoutSettings.
normalize(template, opts, ps, ls) ==
    LET key    == CHOOSE k \in DOMAIN template : TRUE
        value  == mergeOptions(template[key], opts)
        ext    == pickExt(value, value.options.engine, value.options.ext, TRUE)
        ls1    == lazyLayouts(ls, ext)
        parsed == parse(value, getParsers(ps, ext, TRUE))
        out    == extend([k \in {key} |-> parsed.value],
                         [k \in {renameKey(key)} |-> parsed.value])
    IN  IF ext = Undefined \/ parsed.threw
           THEN [threw |-> TRUE, template |-> template, layoutSettings |-> ls1]
           ELSE [threw |-> FALSE, template |-> out,
                 layoutSettings |->
                    IF isLayout(value)
                       THEN [ls1 EXCEPT ![ext] = setLayout(@, out)]
                       ELSE ls1]

RECURSIVE normalizeEach(_, _, _, _, _)
\* normalize(template, options) for a mapping of any size: forOwn visits
\* the keys in turn and each visit works on the mapping as the earlier
\* visits left it.
normalizeEach(keys, template, opts, ps, ls) ==
    IF keys = {}
       THEN [threw |-> FALSE, template |-> template, layoutSettings |-> ls]
       ELSE LET k == CHOOSE x \in keys : TRUE
                n == normalize([j \in {k} |-> template[k]], opts, ps, ls)
            IN  IF n.threw
                   THEN [threw |-> TRUE, template |-> template,
                         layoutSettings |-> n.layoutSettings]
                   ELSE normalizeEach(keys \ {k}, extend(template, n.template),
                                      opts, ps, n.layoutSettings)

\* The options objects normalize is called with, by name.
RoleNames == [none |-> NoRole, renderable |-> Renderable, layout |-> Layout]

\* normalize(mapping, options) called by the application on a mapping; op
\* tells whether the mapping came from the loader or from normalize.
Normalize(op, key, mapping, role) ==
    LET n == normalizeEach(DOMAIN mapping, mapping, RoleNames[role], parsers,
                           layoutSettings)
    IN  /\ layoutSettings' = n.layoutSettings
        /\ ret' = IF n.threw THEN Threw(op, role, key, TypeError)
                  ELSE Result(op, role, key, "return", Undefined, <<>>, {},
                              {n.template})
        /\ UNCHANGED <<engines, cache, templateType, parsers, delims, data,
                       options, proto, created, nextId>>

\* load(plural, options)(key, value, locals): load, normalize, extend the
\* collection.  Yields whether it threw, the collection and layoutSettings.
\* When the instance has no collection of that name, extend is handed
\* undefined and stores nothing.
load(plural, opts, in) ==
    LET n == normalize(Loader(in), opts, parsers, layoutSettings)
    IN  [threw |-> n.threw,
         collection |-> IF ~hasOwn(cache, plural) THEN EmptyObj
                        ELSE IF n.threw THEN cache[plural]
                        ELSE extend(cache[plural], n.template),
         layoutSettings |-> n.layoutSettings]

\* Template.prototype[plural](key, value, locals, opt): returns undefined.
PluralAdder(plural, in) ==
    /\ plural \in DOMAIN proto.plural
    /\ LET l == load(plural, proto.plural[plural], in)
       IN  /\ cache' = IF hasOwn(cache, plural)
                          THEN [cache EXCEPT ![plural] = l.collection]
                          ELSE cache
           /\ layoutSettings' = l.layoutSettings
           /\ ret' = [(IF l.threw THEN Threw("add", plural, in.key, TypeError)
                       ELSE Returned("add", plural, in.key))
                         EXCEPT !.args = {in}]
    /\ UNCHANGED <<engines, templateType, parsers, delims, data, options, proto, created,
                   nextId>>

\* Template.prototype[type](key, value, locals, opt): this[plural](...).
SingularAdder(type, in) ==
    /\ type \in DOMAIN proto.singular
    /\ PluralAdder(proto.singular[type], in)

\* Template.prototype[plural]() with no argument: the loader is given
\* nothing, nothing is normalized or stored, and no value is returned.
PluralAccessor(plural) ==
    /\ plural \in DOMAIN proto.plural
    /\ ret' = Returned("plural", plural, Undefined)
    /\ UNCHANGED <<engines, cache, templateType, layoutSettings, parsers, delims, data,
                   options, proto, created, nextId>>

\* Template.prototype['get' + Name](key): this.cache[plural][key].
Getter(type, key) ==
    /\ type \in DOMAIN proto.getter
    /\ LET plural == proto.getter[type]
       IN  ret' = Result("get", plural, key, "return", Undefined, <<>>,
                         IF hasOwn(cache[plural], key)
                            THEN {cache[plural][key]} ELSE {},
                         {})
    /\ UNCHANGED <<engines, cache, templateType, layoutSettings, parsers, delims, data,
                   options, proto, created, nextId>>

----------------------------------------------------------------------------
(* Layout resolver *)

\* utils.pickFrom(value, 'layout', ['data', 'locals', 'options']) on a
\* record: an own layout property first, then each container in turn; when
\* no container has the key, the last container looked at (options) is
\* what is returned.
pickFrom(value) ==
    IF value.layout # Undefined THEN value.layout
    ELSE IF value.data.layout # Undefined THEN value.data.layout
    ELSE IF value.locals.layout # Undefined THEN value.locals.layout
    ELSE IF value.options.layout # Undefined THEN value.options.layout
    ELSE ObjectValue

\* utils.pickLayout(value)
pickLayout(value) == pickFrom(value)

\* utils.pickContent(file) for a record: its content.
pickContent(template) == template.content

\* The layout a registered layout names for itself, as the layouts walk
\* reads it.
layoutOf(rec) ==
    IF rec.layout # Undefined THEN rec.layout
    ELSE IF rec.data.layout # Undefined THEN rec.data.layout
    ELSE rec.locals.layout

\* The stack walk did not end.
Diverged == "diverged"

RECURSIVE createStack(_, _, _)
\* layouts' stack walk: follow the names from `name` while each is a
\* registered layout.  fuel counts the steps left before the walk has
\* passed through more layouts than are registered, which only a cycle does.
createStack(registry, name, fuel) ==
    IF ~hasOwn(registry, name) THEN <<>>
    ELSE IF fuel = 0 THEN <<Diverged>>
    ELSE <<name>> \o createStack(registry, layoutOf(registry[name]), fuel - 1)

RECURSIVE inject(_, _)
\* The body tag of a layout's content replaced by the inner content.
inject(outer, inner) ==
    IF outer = <<>> THEN <<>>
    ELSE IF Head(outer) = Body THEN inner \o inject(Tail(outer), inner)
    ELSE <<Head(outer)>> \o inject(Tail(outer), inner)

RECURSIVE wrap(_, _, _)
\* Content wrapped by each layout of the stack in turn, innermost first.
wrap(registry, content, stack) ==
    IF stack = <<>> THEN content
    ELSE wrap(registry, inject(registry[Head(stack)].content, content),
              Tail(stack))

\* layoutEngine.render(content, layout, opts): the content wrapped by the
\* stack of the named layout; never returns when the walk does not end.
layoutsRender(registry, content, name) ==
    LET stack == createStack(registry, name, Cardinality(DOMAIN registry))
    IN  IF stack # <<>> /\ stack[Len(stack)] = Diverged
           THEN [hang |-> TRUE, content |-> content]
           ELSE [hang |-> FALSE, content |-> wrap(registry, content, stack)]

\* applyLayout(ext, template, locals).  Yields the content returned, whether
\* the call never returned, and the template with its options as the call
\* leaves them (options.hasLayout is set on the object the caller passed).
applyLayout(ls, ext, template) ==
    IF hasOwn(ls, ext) /\ ~template.options.hasLayout
       THEN LET r == layoutsRender(ls[ext], pickContent(template),
                                   pickLayout(template))
            IN  [hang |-> r.hang, content |-> r.content,
                 template |-> [template EXCEPT !.options.hasLayout = TRUE]]
       ELSE [hang |-> FALSE, content |-> pickContent(template),
             template |-> template]

\* template.applyLayout(ext, record, locals) called on a cached record.
ApplyLayout(ext, plural, key) ==
    /\ plural \in DOMAIN cache
    /\ key \in DOMAIN cache[plural]
    /\ LET a == applyLayout(layoutSettings, ext, cache[plural][key])
       IN  /\ cache' = [cache EXCEPT ![plural][key] = a.template]
           /\ ret' = [Result("applyLayout", plural, key,
                             IF a.hang THEN "hang" ELSE "return",
                             Undefined, a.content, {}, {})
                         EXCEPT !.ext = ext]
    /\ UNCHANGED <<engines, templateType, layoutSettings, parsers, delims, data, options,
                   proto, created, nextId>>

----------------------------------------------------------------------------
(* Render orchestrator *)

\* utils.generateId(): the next id with the prefix '__id__'.
generateId(n) == "__id__" \o ToString(n + 1)

\* utils.pickCached(template, this) as preprocess calls it: null for a
\* value that is not a string; for a string it reads thisArg.viewType, and
\* the third parameter thisArg is not passed.
pickCached(isString) == IF isString THEN TypeError ELSE Null

\* mergePartials(locals) as preprocess calls it: the ext parameter receives
\* the merged locals object, under which no layouts are registered, and
\* every record of a partial type gets content = applyLayout(ext, record, ...).
mergePartials(c, ls) ==
    [p \in DOMAIN c |->
        IF p \in Range(templateType.partial)
           THEN [k \in DOMAIN c[p] |->
                    LET a == applyLayout(ls, Undefined, c[p][k])
                    IN  [a.template EXCEPT !.content = a.content]]
           ELSE c[p]]

\* Some partial's layout walk does not end during mergePartials.
mergePartialsHangs(c, ls) ==
    \E p \in Range(templateType.partial) :
        \E k \in DOMAIN c[p] : applyLayout(ls, Undefined, c[p][k]).hang

\* A locals object: the entries the model reads.  The process-wide data
\* and the locals passed to render or to a helper have this shape.
Locals(name, ext, engine, dl) ==
    [name |-> name, ext |-> ext, engine |-> engine, delims |-> dl]

\* {} as a locals object.
NoLocals == Locals(Undefined, Undefined, Undefined, Undefined)

\* a || b
Either(a, b) == IF a # Undefined THEN a ELSE b

\* mergeFn(template, locals): o = _.defaults({}, o, data, locals) of the
\* record, or locals first with preferLocals; then extend(data, o, locals)
\* on the process-wide data object d, which is what mergeFn returns.
mergeFn(template, locals, d) ==
    LET o == IF options.preferLocals
                THEN Either(template.locals.name, template.data.name)
                ELSE Either(template.data.name, template.locals.name)
    IN  Locals(Either(locals.name, Either(o, d.name)),
               Either(locals.ext, d.ext),
               Either(locals.engine, d.engine),
               Either(locals.delims, d.delims))

\* utils.pickDelims(template, locals): the delimiters the record declares
\* in its options, where normalize has merged the options of its type.
pickDelims(template, locals) == template.options.delims

\* addDelims that leaves delimiters already stored for the ext in place.
addDelimsOnce(ds, ext, dl) ==
    IF hasOwn(ds, ext) THEN ds ELSE extend(ds, [e \in {ext} |-> dl])

\* addDelims(ext, arr): this.delims[ext] = the delimiters made from arr.
addDelims(ds, ext, dl) == extend(ds, [e \in {ext} |-> dl])

\* getDelims(ext): the delimiters stored for ext, else those stored under
\* this.currentDelims || 'default' (useDelims is not called by the model).
getDelims(ds, ext) ==
    IF hasOwn(ds, ext) THEN ds[ext]
    ELSE IF hasOwn(ds, "default") THEN ds["default"]
    ELSE Undefined

\* The partial types in the order trackType pushed them.
PartialTypes == templateType.partial

\* The partial type visited last among those holding the key.
LastHolding(c, key) ==
    LET i == CHOOSE j \in DOMAIN PartialTypes :
                 /\ hasOwn(c[PartialTypes[j]], key)
                 /\ \A m \in DOMAIN PartialTypes :
                        hasOwn(c[PartialTypes[m]], key) => m <= j
    IN  PartialTypes[i]

\* The opts object mergePartials returns, for combine = the mergePartials
\* option: whether building it threw, the maps of record contents it holds
\* by name, and the `name` entry the partials' data and locals left on it
\* (of the partials that have one, the one visited last; the model takes any).
partialsContext(c, combine) ==
    LET types == Range(PartialTypes)
        keys  == UNION {DOMAIN c[t] : t \in types}
        named == UNION {{Either(c[t][k].locals.name, c[t][k].data.name) :
                            k \in DOMAIN c[t]} : t \in types} \ {Undefined}
    IN  [threw |-> ~combine /\ \E t \in types \ {"partials"} : DOMAIN c[t] # {},
         maps  |-> IF combine
                      THEN [m \in {"partials"} |->
                               [k \in keys |-> c[LastHolding(c, k)][k].content]]
                      ELSE [m \in {"partials"} |->
                               IF "partials" \in types
                                  THEN [k \in DOMAIN c["partials"] |->
                                           c["partials"][k].content]
                                  ELSE EmptyObj],
         name  |-> IF named = {} THEN Undefined ELSE CHOOSE n \in named : TRUE]

\* The instance state a render reads and writes.
State(c, ls, ds, d, n) ==
    [cache |-> c, layoutSettings |-> ls, delims |-> ds, data |-> d, nextId |-> n]

\* What preprocess yields: the state it leaves, how it ended, the generated
\* key, and the ext, content, delimiters and locals it hands to the engine;
\* stages are the steps it entered.
Outcome(S, kind, key, ext, content, dl, context) ==
    [S |-> S, kind |-> kind, key |-> key, ext |-> ext, content |-> content,
     delims |-> dl, context |-> context, stages |-> <<>>]

\* The first n steps of a preprocess that applied the layout before it
\* merged the context.
preprocessStagesLayoutFirst(n) ==
    SubSeq(<<"resolve template", "apply layout", "build context",
             "merge partials">>, 1, n)

\* The first n steps of preprocess in the order of its statements: the
\* record is picked from the cache or formatted, mergeFn merges the
\* context, applyLayout wraps the content, mergePartials adds the partials.
preprocessStages(n) ==
    SubSeq(<<"resolve template", "build context", "apply layout",
             "merge partials">>, 1, n)

\* preprocess, its last steps: the delimiters are looked up under the engine
\* object when the call names an engine and under the ext otherwise, and the
\* locals are extended with what mergePartials returns.  c is the cache and
\* ds the delimiters as the earlier steps left them, a the applied layout,
\* pc what mergePartials returns.
preprocessPartials(S, locals, key, ls, merged, ext, a, c, ds, pc) ==
    IF a.hang \/ mergePartialsHangs(c, ls)
       THEN [Outcome(State(c, ls, ds, merged, S.nextId + 1), "hang", key, ext,
                     <<>>, Undefined, {})
                EXCEPT !.stages = preprocessStages(IF a.hang THEN 3 ELSE 4)]
    ELSE IF pc.threw
       THEN [Outcome(State(c, ls, ds, merged, S.nextId + 1), "throw", key, ext,
                     <<>>, Undefined, {})
                EXCEPT !.stages = preprocessStages(4)]
    ELSE [Outcome(State(mergePartials(c, ls), ls, ds, merged, S.nextId + 1),
                  "return", key, ext, a.content,
                  IF locals.engine # Undefined
                     THEN getDelims(ds, ObjectValue) ELSE getDelims(ds, ext),
                  {[name |-> Either(pc.name, merged.name), maps |-> pc.maps]})
             EXCEPT !.stages = preprocessStages(4)]

\* preprocess after the layout was applied: delimiters given by the call or
\* picked from the record are stored under the ext.
preprocessDelims(S, locals, key, ls, merged, ext, a, c, dl) ==
    preprocessPartials(S, locals, key, ls, merged, ext, a, c,
                       IF dl # Undefined THEN addDelims(S.delims, ext, dl)
                       ELSE S.delims,
                       partialsContext(c, options.mergePartials))

\* preprocess after the ext was picked: the layout is applied to the record
\* format() stored in the collection coll of cache.anonymous.
preprocessLayout(S, locals, key, ls, coll, merged, ext, a) ==
    preprocessDelims(S, locals, key, ls, merged, ext, a,
                     [S.cache EXCEPT !["anonymous"] =
                         [coll EXCEPT ![key] = a.template]],
                     Either(locals.delims, pickDelims(coll[key], merged)))

\* preprocess after mergeFn: the ext is picked from the record and the
\* merged locals.
preprocessExt(S, locals, key, ls, coll, merged, ext) ==
    preprocessLayout(S, locals, key, ls, coll, merged, ext,
                     applyLayout(ls, ext, coll[key]))

\* preprocess after format(): n is what normalize yielded for the value
\* loaded under the generated key.
preprocessLoaded(S, locals, key, n, coll) ==
    IF n.threw
       THEN [Outcome(State(S.cache, n.layoutSettings, S.delims, S.data,
                           S.nextId + 1),
                     "throw", key, Undefined, <<>>, Undefined, {})
                EXCEPT !.stages = preprocessStages(1)]
       ELSE preprocessExt(S, locals, key, n.layoutSettings, coll,
                          mergeFn(coll[key], locals, S.data),
                          pickExt(coll[key],
                                  mergeFn(coll[key], locals, S.data).engine,
                                  mergeFn(coll[key], locals, S.data).ext, TRUE))

\* The value loaded and normalized under the generated key by format().
preprocessFormat(S, locals, key, n) ==
    preprocessLoaded(S, locals, key, n, extend(S.cache["anonymous"], n.template))

\* preprocess(template, locals) for a record-shaped value that is not
\* served from the cache: format() loads it under a generated key into
\* cache.anonymous, mergeFn merges the locals, the ext is picked, the layout
\* applied, the delimiters stored and looked up, and the partials merged.
preprocess(S, in, locals) ==
    preprocessFormat(S, locals, generateId(S.nextId),
                     normalize(Loader([in EXCEPT !.key = generateId(S.nextId)]),
                               Renderable, parsers, S.layoutSettings))

\* An engine object as the engine cache holds it: whether it has a render
\* and a renderSync function of its own.
EngineObject(name, sync) == [name |-> name, render |-> TRUE, renderSync |-> sync]

\* getEngine(ext): the engine registered under the ext, else the one
\* registered under '.*'.
getEngine(es, ext) == IF hasOwn(es, ext) THEN es[ext] ELSE es[".*"]

\* The engine preprocess resolves: the one the call names in locals.engine,
\* dotted, else the one of the picked ext.
resolveEngine(es, locals, ext) ==
    IF locals.engine # Undefined THEN getEngine(es, formatExt(locals.engine))
    ELSE getEngine(es, ext)

\* The error renderSync throws when the engine has no renderSync.
NoRenderSync == "Error: renderSync method not found on engine"

\* An error raised by an engine while it renders.
EngineError == "EngineError"

\* Calls of the inclusion helper `partial` as they stand in a page's body.
IncludeLink == "<%= partial('link', {name: 'helper'}) %>"

IncludeMissing == "<%= partial('missing') %>"

\* The helper, key and locals of each call.
HelperCalls ==
    [t \in {IncludeLink, IncludeMissing} |->
        [type |-> "partial",
         key |-> IF t = IncludeLink THEN "link" ELSE "missing",
         locals |-> IF t = IncludeLink
                       THEN Locals("helper", Undefined, Undefined, Undefined)
                       ELSE NoLocals]]

\* A stored record handed to render as the value to load.
AsInput(key, rec) ==
    [key |-> key, path |-> rec.path, content |-> rec.content,
     layout |-> rec.layout, ext |-> rec.ext, engine |-> rec.engine,
     data |-> rec.data, locals |-> rec.locals, options |-> rec.options]

\* renderSync as the helper calls it, after preprocess ended as p: it throws
\* when the engine of the picked ext has no renderSync.
helperEngine(p) ==
    IF p.kind = "return" /\ ~getEngine(engines, p.ext).renderSync
       THEN [p EXCEPT !.kind = "throw"]
       ELSE p

\* A helper that merges its locals into the stored record before rendering
\* it, as partial.locals = extend({}, partial.locals, locals) would.
helperMergesLocals(S, call) ==
    LET plural == proto.singular[call.type]
        S1     == IF hasOwn(S.cache[plural], call.key)
                     THEN [S EXCEPT !.cache[plural][call.key].locals.name =
                                        Either(call.locals.name, @)]
                     ELSE S
        in     == IF hasOwn(S1.cache[plural], call.key)
                     THEN AsInput(call.key, S1.cache[plural][call.key])
                     ELSE Input(call.key, Undefined, <<>>, Undefined, Undefined,
                                Undefined, Undefined, Undefined)
    IN  helperEngine(preprocess(S1, in, NoLocals))

\* The helper defaultHelpers(type, plural) adds: the record under the key
\* (undefined when there is none) gets the helper's locals as
\* _locals.partial, which nothing reads, and is handed to renderSync; the
\* partials of the model hold no helper calls, so the engine returns the
\* preprocessed content.
helper(S, call) ==
    LET plural == proto.singular[call.type]
        in     == IF hasOwn(S.cache[plural], call.key)
                     THEN AsInput(call.key, S.cache[plural][call.key])
                     ELSE Input(call.key, Undefined, <<>>, Undefined, Undefined,
                                Undefined, Undefined, Undefined)
    IN  helperEngine(preprocess(S, in, NoLocals))

RECURSIVE engineRender(_, _)
RECURSIVE engineHelper(_, _)
\* The engine's render of the content: text is left as it is and each
\* helper call is replaced by what the helper returns; a helper that throws
\* ends the render.  Yields the state left, how it ended, the output and the
\* contexts of the helpers' renders.
engineRender(S, content) ==
    IF content = <<>>
       THEN [S |-> S, kind |-> "return", out |-> <<>>, inner |-> {}]
    ELSE IF Head(content) \notin DOMAIN HelperCalls
       THEN [engineRender(S, Tail(content)) EXCEPT !.out = <<Head(content)>> \o @]
    ELSE engineHelper(Tail(content), helper(S, HelperCalls[Head(content)]))

\* The engine's render after a helper call ended as h: the rest of the
\* content is rendered when the helper returned.
engineHelper(rest, h) ==
    IF h.kind # "return"
       THEN [S |-> h.S, kind |-> h.kind, out |-> <<>>, inner |-> {}]
       ELSE [engineRender(h.S, rest) EXCEPT !.out = h.content \o @,
                                            !.inner = h.context \cup @]

\* The caller's callback throws when render invokes it with the result.
CallbackThrows == "callback throws"

\* The number of times render invoked the caller's callback: once for each
\* delivery among the steps of the call.
callbackCount(op, stages) ==
    IF op = "render"
       THEN Cardinality({i \in DOMAIN stages : stages[i] = "deliver"})
       ELSE 0

\* The steps of render or renderSync after preprocess: the engine is
\* invoked; render hands what the engine called back with to
\* helpers.resolve, which calls the caller's callback; an exception caught
\* by the try goes to the callback (render) or is returned (renderSync)
\* without that pass.
engineStages(op, kind, via, calls, fault) ==
    IF calls = {} THEN <<>>
    ELSE IF fault = CallbackThrows
       THEN IF via = "callback"
               THEN <<"invoke engine", "resolve helpers", "deliver", "deliver">>
               ELSE <<"invoke engine", "resolve helpers", "deliver">>
    ELSE IF fault = "reports"
       THEN IF via = "throw" THEN <<"invoke engine", "resolve helpers">>
            ELSE <<"invoke engine", "resolve helpers", "deliver">>
    ELSE IF kind = "hang" THEN <<"invoke engine">>
    ELSE IF kind = "throw" \/ op = "renderSync"
       THEN <<"invoke engine", "deliver">>
    ELSE <<"invoke engine", "resolve helpers", "deliver">>

\* render after preprocess ended as p and the engine as e: the instance is
\* left as the last of them left it and the outcome goes to the caller.
renderDeliver(in, locals, p, S, kind, out, inner) ==
    /\ cache' = S.cache
    /\ layoutSettings' = S.layoutSettings
    /\ delims' = S.delims
    /\ data' = S.data
    /\ nextId' = S.nextId
    /\ ret' = [Result("render", "anonymous", p.key, kind,
                      IF kind = "throw" THEN TypeError ELSE Undefined,
                      out, {}, {})
                  EXCEPT !.ext = p.ext, !.args = {in}, !.locals = {locals},
                         !.delims = p.delims, !.context = p.context,
                         !.inner = inner,
                         !.via = IF kind # "throw" THEN Undefined
                                 ELSE IF p.kind = "throw" THEN "throw"
                                 ELSE "callback",
                         !.calls = IF p.kind = "return" THEN {"render"} ELSE {},
                         !.stages = p.stages \o
                            engineStages("render", kind,
                                         IF kind # "throw" THEN Undefined
                                         ELSE IF p.kind = "throw" THEN "throw"
                                         ELSE "callback",
                                         IF p.kind = "return" THEN {"render"}
                                         ELSE {}, "none")]

\* render after preprocess ended as p: the engine renders its content.
renderEngine(in, locals, p, e) ==
    IF p.kind # "return"
       THEN renderDeliver(in, locals, p, p.S, p.kind, <<>>, {})
    ELSE IF e.kind # "return"
       THEN renderDeliver(in, locals, p, e.S, e.kind, <<>>, {})
    ELSE renderDeliver(in, locals, p, e.S, "return", e.out, e.inner)

\* render after preprocess ended as p.
renderPreprocessed(in, locals, p) ==
    renderEngine(in, locals, p, engineRender(p.S, p.content))

\* render(value, locals, cb) for content that is not served from the cache:
\* preprocess, then the engine.  A throw in preprocess leaves render as a
\* throw; a throw in the engine is handed to the callback.
renderAnonymous(in, locals) ==
    renderPreprocessed(in, locals,
                       preprocess(State(cache, layoutSettings, delims, data,
                                        nextId), in, locals))

\* render(name, cb) with a string: with the cache option on, preprocess
\* calls utils.pickCached first; otherwise the string is literal content.
RenderName(name) ==
    /\ nextId < MaxIds
    /\ IF options.cache
          THEN /\ pickCached(TRUE) = TypeError
               /\ ret' = [Threw("render", "name", name, TypeError)
                             EXCEPT !.stages = preprocessStages(1)]
               /\ UNCHANGED <<engines, cache, layoutSettings, delims, data, nextId>>
          ELSE renderAnonymous(Input(Undefined, Undefined, <<name>>, Undefined,
                                     Undefined, Undefined, Undefined, Undefined),
                               NoLocals)
    /\ UNCHANGED <<engines, templateType, parsers, options, proto, created>>

\* render(object, cb) with a record-shaped object.
RenderObject(in) ==
    /\ nextId < MaxIds
    /\ pickCached(FALSE) = Null
    /\ renderAnonymous(in, NoLocals)
    /\ UNCHANGED <<engines, templateType, parsers, options, proto, created>>

\* render(object, locals, cb) with a record-shaped object and locals.
RenderWith(in, locals) ==
    /\ nextId < MaxRenders
    /\ pickCached(FALSE) = Null
    /\ renderAnonymous(in, locals)
    /\ UNCHANGED <<engines, templateType, parsers, options, proto, created>>

\* addDelims(ext, arr) called by the application.
AddDelims(ext, dl) ==
    /\ delims' = addDelims(delims, ext, dl)
    /\ ret' = Returned("addDelims", ext, Undefined)
    /\ UNCHANGED <<engines, cache, templateType, layoutSettings, parsers, data, options,
                   proto, created, nextId>>

\* addDelims(ext, arr, layoutDelims) called by the application with an
\* array of layout delimiters: lazyLayouts makes the layout registry of the
\* ext when there is none.
AddLayoutDelims(ext, dl) ==
    /\ delims' = addDelims(delims, ext, dl)
    /\ layoutSettings' = lazyLayouts(layoutSettings, ext)
    /\ ret' = Returned("addDelims", ext, Undefined)
    /\ UNCHANGED <<engines, cache, templateType, parsers, data, options,
                   proto, created, nextId>>

\* set('data', {name: value}) called by the application.
SetData(name) ==
    /\ data' = Locals(name, Undefined, Undefined, Undefined)
    /\ ret' = Returned("set", Undefined, "data")
    /\ UNCHANGED <<engines, cache, templateType, layoutSettings, parsers, delims,
                   options, proto, created, nextId>>

\* utils.pickLayout(record) called on a cached record.
PickLayout(plural, key) ==
    /\ plural \in DOMAIN cache
    /\ key \in DOMAIN cache[plural]
    /\ ret' = Result("pickLayout", plural, key, "return", Undefined,
                     <<pickLayout(cache[plural][key])>>, {}, {})
    /\ UNCHANGED <<engines, cache, templateType, layoutSettings, parsers, delims, data,
                   options, proto, created, nextId>>

\* option(key, value) for the options the model reads.
SetOption(key, value) ==
    /\ options' = [options EXCEPT ![key] = value]
    /\ ret' = Returned("option", Undefined, key)
    /\ UNCHANGED <<engines, cache, templateType, layoutSettings, parsers, delims, data,
                   proto, created, nextId>>

\* _registerEngine(ext, fn, options) without a delims option: the engine is
\* registered under the dotted ext and lazyLayouts makes its layout registry.
Engine(ext, engine) ==
    /\ engines' = extend(engines, [e \in {formatExt(ext)} |-> engine])
    /\ layoutSettings' = lazyLayouts(layoutSettings, formatExt(ext))
    /\ ret' = Returned("engine", formatExt(ext), Undefined)
    /\ UNCHANGED <<cache, templateType, parsers, delims, data, options, proto,
                   created, nextId>>

\* How the engine behaves in a render: it renders, it throws, or (when
\* asynchronous) it reports an error through its callback.
Faults == {"none", "throws", "reports"}

\* What helpers.resolve(undefined, cb) of helper-cache does with the
\* undefined result of a failed render: it calls back without an error, or
\* it throws a TypeError that the try of render catches (the engine called
\* back synchronously) or that nothing catches (it called back later).
ResolveOutcomes == {"undefined", "caught", "uncaught"}

\* The end of a render or renderSync call: the instance is left as S and
\* the outcome goes to the caller.
renderEnd(op, in, locals, p, S, kind, via, err, out, inner, calls, fault) ==
    /\ cache' = S.cache
    /\ layoutSettings' = S.layoutSettings
    /\ delims' = S.delims
    /\ data' = S.data
    /\ nextId' = S.nextId
    /\ ret' = [Result(op, "anonymous", p.key, kind, err, out, {}, {})
                  EXCEPT !.ext = p.ext, !.args = {in}, !.locals = {locals},
                         !.delims = p.delims, !.context = p.context,
                         !.inner = inner, !.via = via, !.calls = calls,
                         !.fault = fault,
                         !.stages = p.stages \o
                            engineStages(op, kind, via, calls, fault)]

\* renderSync that falls back to the engine's asynchronous render when the
\* engine has no renderSync.
renderSyncFallsBack(in, locals, p, engine, fault, e) ==
    IF p.kind # "return"
       THEN renderEnd("renderSync", in, locals, p, p.S, p.kind,
                      IF p.kind = "throw" THEN "throw" ELSE Undefined,
                      IF p.kind = "throw" THEN TypeError ELSE Undefined,
                      <<>>, {}, {}, "none")
    ELSE IF fault = "throws" \/ e.kind # "return"
       THEN renderEnd("renderSync", in, locals, p, e.S, "throw", "return",
                      EngineError, <<>>, {}, {"renderSync"}, "throws")
    ELSE renderEnd("renderSync", in, locals, p, e.S, "return", Undefined,
                   Undefined, e.out, e.inner,
                   IF engine.renderSync THEN {"renderSync"} ELSE {"render"}, "none")

\* renderSync after preprocess ended as p, for the resolved engine and what
\* its renderSync would yield (e): a throw of preprocess leaves renderSync
\* as a throw, and so does an engine without renderSync; an exception from
\* engine.renderSync is caught and returned.
renderSyncEngine(in, locals, p, engine, fault, e) ==
    IF p.kind = "hang"
       THEN renderEnd("renderSync", in, locals, p, p.S, "hang", Undefined,
                      Undefined, <<>>, {}, {}, "none")
    ELSE IF p.kind = "throw"
       THEN renderEnd("renderSync", in, locals, p, p.S, "throw", "throw",
                      TypeError, <<>>, {}, {}, "none")
    ELSE IF ~engine.renderSync
       THEN renderEnd("renderSync", in, locals, p, p.S, "throw", "throw",
                      NoRenderSync, <<>>, {}, {}, "none")
    ELSE IF fault = "throws"
       THEN renderEnd("renderSync", in, locals, p, p.S, "throw", "return",
                      EngineError, <<>>, {}, {"renderSync"}, "throws")
    ELSE IF e.kind = "hang"
       THEN renderEnd("renderSync", in, locals, p, e.S, "hang", Undefined,
                      Undefined, <<>>, {}, {"renderSync"}, "none")
    ELSE IF e.kind = "throw"
       THEN renderEnd("renderSync", in, locals, p, e.S, "throw", "return",
                      TypeError, <<>>, {}, {"renderSync"}, "none")
    ELSE renderEnd("renderSync", in, locals, p, e.S, "return", Undefined,
                   Undefined, e.out, e.inner, {"renderSync"}, "none")

\* renderSync after preprocess ended as p.
renderSyncPreprocessed(in, locals, p, fault) ==
    renderSyncEngine(in, locals, p, resolveEngine(engines, locals, p.ext),
                     fault, engineRender(p.S, p.content))

\* renderSync(object, locals) with a record-shaped object; fault tells
\* whether the engine's renderSync throws.
RenderSync(in, locals, fault) ==
    /\ nextId < MaxRenders
    /\ pickCached(FALSE) = Null
    /\ fault \in {"none", "throws"}
    /\ renderSyncPreprocessed(in, locals,
                              preprocess(State(cache, layoutSettings, delims,
                                               data, nextId), in, locals),
                              fault)
    /\ UNCHANGED <<engines, templateType, parsers, options, proto, created>>

\* render after preprocess ended as p, with an engine that fails: an
\* exception of engine.render is caught and handed to the callback; an
\* error the engine reports is dropped by render's callback, which hands
\* the undefined result to helpers.resolve.
renderFailing(in, locals, p, fault, resolved) ==
    IF p.kind # "return"
       THEN renderDeliver(in, locals, p, p.S, p.kind, <<>>, {})
    ELSE IF fault = "throws"
       THEN renderEnd("render", in, locals, p, p.S, "throw", "callback",
                      EngineError, <<>>, {}, {"render"}, "throws")
    ELSE IF resolved = "undefined"
       THEN renderEnd("render", in, locals, p, p.S, "return", Undefined,
                      Undefined, <<Undefined>>, {}, {"render"}, "reports")
    ELSE IF resolved = "caught"
       THEN renderEnd("render", in, locals, p, p.S, "throw", "callback",
                      TypeError, <<>>, {}, {"render"}, "reports")
    ELSE renderEnd("render", in, locals, p, p.S, "throw", "throw",
                   TypeError, <<>>, {}, {"render"}, "reports")

\* render(object, locals, cb) with a record-shaped object; fault tells how
\* the engine behaves and resolved what helpers.resolve does after an
\* error the engine reported.
Render(in, locals, fault, resolved) ==
    /\ nextId < MaxRenders
    /\ pickCached(FALSE) = Null
    /\ IF fault = "none"
          THEN renderAnonymous(in, locals)
          ELSE renderFailing(in, locals,
                             preprocess(State(cache, layoutSettings, delims,
                                              data, nextId), in, locals),
                             fault, resolved)
    /\ UNCHANGED <<engines, templateType, parsers, options, proto, created>>

\* render after preprocess ended as p and the engine as e, with a callback
\* that throws when it is handed the result: when the engine called back
\* inside engine.render (sync), the exception passes through
\* helpers.resolve and engine.render to the catch of render, which invokes
\* the callback again with the exception; when it called back later, the
\* exception is nobody's.
renderCallbackThrows(in, locals, p, e, sync) ==
    IF p.kind # "return"
       THEN renderDeliver(in, locals, p, p.S, p.kind, <<>>, {})
    ELSE IF e.kind # "return"
       THEN renderDeliver(in, locals, p, e.S, e.kind, <<>>, {})
    ELSE renderEnd("render", in, locals, p, e.S, "return",
                   IF sync THEN "callback" ELSE "throw", CallbackThrows,
                   e.out, e.inner, {"render"}, CallbackThrows)

\* render after preprocess ended as p, with a callback that throws.
renderThrowingPreprocessed(in, locals, p, sync) ==
    renderCallbackThrows(in, locals, p, engineRender(p.S, p.content), sync)

\* render(object, locals, cb) with a callback that throws on the result;
\* sync tells whether the engine calls back before engine.render returns.
RenderCallbackThrows(in, locals, sync) ==
    /\ nextId < MaxRenders
    /\ pickCached(FALSE) = Null
    /\ renderThrowingPreprocessed(in, locals,
                                  preprocess(State(cache, layoutSettings,
                                                   delims, data, nextId),
                                             in, locals),
                                  sync)
    /\ UNCHANGED <<engines, templateType, parsers, options, proto, created>>

RECURSIVE Registered(_, _)
\* The number of parsers in the stacks of the given keys.
Registered(ps, keys) ==
    IF keys = {} THEN 0
    ELSE LET k == CHOOSE x \in keys : TRUE
         IN  Len(ps[k]) + Registered(ps, keys \ {k})

\* parser(ext, fn): registerParser(ext, fn) for a function fn.
Parser(ext, fn) ==
    /\ Registered(parsers, DOMAIN parsers) < MaxParsers
    /\ parsers' = registerParser(parsers, ext, fn, FALSE)
    /\ ret' = Returned("parser", ext, fn)
    /\ UNCHANGED <<engines, cache, templateType, layoutSettings, delims, data,
                   options, proto, created, nextId>>

\* parserSync(ext, fn): registerParser(ext, fn, true) for a function fn.
ParserSync(ext, fn) ==
    /\ Registered(parsers, DOMAIN parsers) < MaxParsers
    /\ parsers' = registerParser(parsers, ext, fn, TRUE)
    /\ ret' = Returned("parserSync", ext, fn)
    /\ UNCHANGED <<engines, cache, templateType, layoutSettings, delims, data,
                   options, proto, created, nextId>>

\* parse(record, stack) called by the application with an array of parser
\* functions: the parsed record is returned.
Parse(rec, stack) ==
    /\ ret' = [(IF parse(rec, stack).threw
                   THEN Threw("parse", Undefined, Undefined, TypeError)
                   ELSE Result("parse", Undefined, Undefined, "return",
                               Undefined, stack, {parse(rec, stack).value}, {}))
                 EXCEPT !.args = {rec}, !.value = stack]
    /\ UNCHANGED <<engines, cache, templateType, layoutSettings, parsers,
                   delims, data, options, proto, created, nextId>>

\* runParser(record, fn) called by the application.
RunParser(rec, fn) ==
    /\ ret' = [Result("runParser", Undefined, Undefined, "return", Undefined,
                      <<fn>>, {runParser(rec, fn)}, {})
                 EXCEPT !.args = {rec}]
    /\ UNCHANGED <<engines, cache, templateType, layoutSettings, parsers,
                   delims, data, options, proto, created, nextId>>

\* getParsers(ext, sync) called by the application.
GetParsers(ext, sync) ==
    /\ ret' = Result(IF sync THEN "getParsers sync" ELSE "getParsers", ext,
                     Undefined, "return", Undefined,
                     getParsers(parsers, ext, sync), {}, {})
    /\ UNCHANGED <<engines, cache, templateType, layoutSettings, parsers,
                   delims, data, options, proto, created, nextId>>

----------------------------------------------------------------------------
(* Construction *)

\* layoutSettings after init(): addDelims('*') and the default engines.
InitLayoutSettings ==
    [e \in {"*", ".md", ".html", ".hbs", ".*"} |-> EmptyObj]

\* this.parsers after defaultParsers().
InitParsers ==
    [e \in {".md", ".html", ".hbs", ".*"} |->
        IF e = ".*" THEN <<ParserObject("noop", "noop")>>
        ELSE <<ParserObject("front-matter", "front-matter")>>]

\* The engine cache after defaultEngines(): engine-lodash for the default
\* exts and engine-noop for '*', each with render and renderSync.
InitEngines ==
    [e \in {".md", ".html", ".hbs", ".*"} |->
        IF e = ".*" THEN EngineObject("noop", TRUE)
        ELSE EngineObject("lodash", TRUE)]

\* The options defaultOptions() sets, as far as the model reads them.
InitOptions ==
    [cache |-> TRUE, layout |-> Null, viewEngine |-> ".*",
     preferLocals |-> FALSE, mergePartials |-> TRUE]

\* this.delims after defaultDelimiters(): addDelims('*', ['<%', '%>'], ...).
InitDelims == [e \in {"*"} |-> "<% %>"]

\* State after new Template(): defaultConfig sets the caches, defaultTemplates
\* creates page/pages, layout/layouts and partial/partials.
Init ==
    /\ cache = [p \in {"mixins", "locals", "imports", "layouts", "partials",
                       "anonymous", "pages"} |-> EmptyObj]
    /\ templateType = [renderable |-> <<"pages">>, layout |-> <<"layouts">>,
                       partial |-> <<"partials">>]
    /\ layoutSettings = InitLayoutSettings
    /\ parsers = InitParsers
    /\ delims = InitDelims
    /\ data = NoLocals
    /\ options = InitOptions
    /\ proto = [singular |-> [page |-> "pages", layout |-> "layouts",
                              partial |-> "partials"],
                plural   |-> [pages |-> Renderable, layouts |-> Layout,
                              partials |-> NoRole],
                getter   |-> [page |-> "pages", layout |-> "layouts",
                              partial |-> "partials"]]
    /\ created = <<[type |-> "page", typeof |-> "string", plural |-> "pages",
                    options |-> Renderable],
                   [type |-> "layout", typeof |-> "string", plural |-> "layouts",
                    options |-> Layout],
                   [type |-> "partial", typeof |-> "string", plural |-> "partials",
                    options |-> NoRole]>>
    /\ nextId = 0
    /\ engines = InitEngines
    /\ ret = Returned("new", Undefined, Undefined)

----------------------------------------------------------------------------
(* Specification of the type registry and its accessors *)

\* No call is made while an earlier call has not returned.
Alive == ret.kind # "hang"

\* Types a caller declares next to the default ones.
CreateInputs ==
    {<<"doc", PluralArg("string", "docs"), opts>> : opts \in {NoRole, Renderable}}

\* Values handed to the adders: key, declared path, content with or
\* without front matter, declared ext.
AddInputs ==
    {Input(k, p, c, Undefined, Undefined, Undefined, Undefined, e) :
        k \in {"home"}, p \in {Undefined, "src/home.md"},
        c \in {<<"hello">>}, e \in {Undefined, ".md"}}
    \cup {Input("posts/home", Undefined, <<"hello">>, Undefined, Undefined,
                Undefined, Undefined, ".md"),
          Input("home", Undefined, <<FrontMatter.a, "hello">>, Undefined,
                Undefined, Undefined, Undefined, ".md")}

DoCreate ==
    /\ Alive
    /\ \E in \in CreateInputs : Create(in[1], in[2], in[3])

DoSingular ==
    /\ Alive
    /\ \E type \in {"doc"}, in \in AddInputs : SingularAdder(type, in)

DoPlural ==
    /\ Alive
    /\ \E plural \in {"docs"}, in \in AddInputs : PluralAdder(plural, in)

DoAccessor ==
    /\ Alive
    /\ \E plural \in {"docs"} : PluralAccessor(plural)

DoGetter ==
    /\ Alive
    /\ \E type \in {"doc"}, key \in {"home", "posts/home"} :
          Getter(type, key)

DoRenderName ==
    /\ Alive
    /\ \E name \in {"home", "nothing"} : RenderName(name)

Next ==
    \/ DoCreate
    \/ DoSingular
    \/ DoPlural
    \/ DoAccessor
    \/ DoGetter
    \/ DoRenderName

Spec == Init /\ [][Next]_vars

----------------------------------------------------------------------------
(* Specification of two instances *)

\* Types declared on the other instance: the same singular name with the
\* same or another plural and the same or other options.
ElsewhereInputs ==
    {<<"doc", plural, opts>> :
        plural \in {"docs", "documents"}, opts \in {NoRole, Renderable}}

\* Values handed to the accessor of this instance.
InstanceInputs ==
    {Input(k, Undefined, <<"hello">>, Undefined, Undefined, Undefined,
           Undefined, ".md") : k \in {"home", "about"}}

DoCreateElsewhere ==
    /\ Alive
    /\ \E in \in ElsewhereInputs :
          /\ proto # defineMethods(proto, in[1], in[2], in[3])
          /\ CreateElsewhere(in[1], in[2], in[3])

DoInstanceAdd ==
    /\ Alive
    /\ \E in \in InstanceInputs : SingularAdder("doc", in)

NextInstances == DoCreate \/ DoCreateElsewhere \/ DoInstanceAdd

SpecInstances == Init /\ [][NextInstances]_vars

----------------------------------------------------------------------------
(* Specification of normalization *)

\* Values handed to the loader: keys with and without directories, content
\* with no, one and two leading front-matter blocks, with or without an ext.
NormalizeInputs ==
    {Input(k, Undefined, c, Undefined, Undefined, Undefined, Undefined, e) :
        k \in {"home", "posts/home", "src/posts/home"},
        c \in {<<"hello">>, <<FrontMatter.a, "hello">>,
               <<FrontMatter.a, FrontMatter.b, "hello">>},
        e \in {Undefined, ".md"}}

DoNormalize ==
    /\ Alive
    /\ \E in \in NormalizeInputs, role \in DOMAIN RoleNames :
          Normalize("normalize", in.key, Loader(in), role)

DoNormalizeOutput ==
    /\ Alive
    /\ ret.op \in {"normalize", "normalize output"}
    /\ \E m \in ret.colls : Normalize("normalize output", ret.key, m, ret.target)

NextNormalize == DoNormalize \/ DoNormalizeOutput

SpecNormalize == Init /\ [][NextNormalize]_vars

----------------------------------------------------------------------------
(* Specification of the parser registry *)

\* Extensions as given to parser, parserSync and getParsers: with and
\* without their dot.
ParserExts == {"a", ".a", "md", ".md"}

DoParser ==
    /\ Alive
    /\ \E ext \in ParserExts, fn \in ParserFns : Parser(ext, fn)

DoParserSync ==
    /\ Alive
    /\ \E ext \in ParserExts, fn \in ParserFns : ParserSync(ext, fn)

DoGetParsers ==
    /\ Alive
    /\ \E ext \in ParserExts, sync \in BOOLEAN : GetParsers(ext, sync)

NextParsers == DoParser \/ DoParserSync \/ DoGetParsers

SpecParsers == Init /\ [][NextParsers]_vars

----------------------------------------------------------------------------
(* Specification of parsing *)

\* Longest content a record handed to parse has.
MaxParsed == 4

\* Records handed to parse: loaded records with and without a declared
\* ext, and a record without own keys.
ParseRecords ==
    {Loader(Input("home", Undefined, <<"hello">>, Undefined, Undefined,
                  Undefined, Undefined, ext))["home"] :
        ext \in {Undefined, ".md"}}
    \cup {EmptyObj}

\* Stacks handed to parse: arrays of up to two parser functions.
ParseStacks ==
    {<<>>} \cup {<<f>> : f \in ParserFns}
           \cup {<<f, g>> : f \in ParserFns, g \in ParserFns}

DoParse ==
    /\ Alive
    /\ \E rec \in ParseRecords, stack \in ParseStacks : Parse(rec, stack)

\* The record a parse or runParser call returned is parsed again.
DoParseOutput ==
    /\ Alive
    /\ ret.op \in {"parse", "runParser"}
    /\ \E rec \in ret.recs, stack \in ParseStacks :
          /\ DOMAIN rec # {}
          /\ Len(rec.content) <= MaxParsed
          /\ Parse(rec, stack)

DoRunParser ==
    /\ Alive
    /\ \E rec \in ParseRecords, fn \in ParserFns : RunParser(rec, fn)

NextParse == DoParse \/ DoParseOutput \/ DoRunParser

SpecParse == Init /\ [][NextParse]_vars

----------------------------------------------------------------------------
(* Specification of the parser stack normalize selects *)

\* Pages that declare an ext with a registered stack (.md) or without one
\* (.txt).
FallbackInputs ==
    {Input(k, Undefined, <<"hello">>, Undefined, Undefined, Undefined,
           Undefined, ext) :
        k \in {"home", "about"}, ext \in {".md", ".txt"}}

DoUniversalParser ==
    /\ Alive
    /\ \E fn \in ParserFns : ParserSync("*", fn)

DoFallbackAdd ==
    /\ Alive
    /\ \E in \in FallbackInputs : SingularAdder("page", in)

NextFallback == DoUniversalParser \/ DoFallbackAdd

SpecFallback == Init /\ [][NextFallback]_vars

----------------------------------------------------------------------------
(* Specification of type declaration *)

\* Plural arguments of every kind: a name, the empty string, undefined and a
\* number; each with every combination of the role options.
TypeInputs ==
    {<<"doc", PluralArg("string", "docs")>>,
     <<"doc", PluralArg("string", "")>>,
     <<"doc", PluralArg("undefined", Undefined)>>,
     <<"doc", PluralArg("number", "42")>>}

DoDeclare ==
    /\ Alive
    /\ \E in \in TypeInputs, opts \in RoleOptions : Create(in[1], in[2], opts)

NextTypes == DoDeclare \/ DoAccessor

SpecTypes == Init /\ [][NextTypes]_vars

----------------------------------------------------------------------------
(* Specification of layout name resolution *)

\* Pages that declare a layout in any of the places a record can hold one.
PickInputs ==
    {Input("home", Undefined, <<"hello">>, root, dataLayout, localsLayout,
           opt, ".md") :
        root \in {Undefined, "a"}, dataLayout \in {Undefined, "b"},
        localsLayout \in {Undefined, "c"}, opt \in {Undefined, "d"}}

DoPickPage == /\ Alive
              /\ \E in \in PickInputs : SingularAdder("page", in)

DoLayoutOption ==
    /\ Alive
    /\ \E name \in {Null, "e"} :
          name # options.layout /\ SetOption("layout", name)

DoPickLayout == /\ Alive
                /\ PickLayout("pages", "home")

DoPickApply == /\ Alive
               /\ ApplyLayout(".md", "pages", "home")

NextPick ==
    \/ DoPickPage
    \/ DoLayoutOption
    \/ DoPickLayout
    \/ DoPickApply

SpecPick == Init /\ [][NextPick]_vars

----------------------------------------------------------------------------
(* Specification of layout application *)

Above == [a |-> "A above", b |-> "B above", c |-> "C above"]

Below == [a |-> "A below", b |-> "B below", c |-> "C below"]

LayoutNames == DOMAIN Above

\* A layout as test/layout.js writes it: its markers around the body tag,
\* the layout it names for itself given as locals.
LayoutInputs ==
    {Input(name, Undefined, <<Above[name], Body, Below[name]>>, Undefined,
           Undefined, next, Undefined, ext) :
        name \in LayoutNames, next \in LayoutNames \cup {Undefined},
        ext \in {Undefined, ".md"}}

\* Pages and render objects: content, a layout, a declared ext or none.
PageInputs ==
    {Input("home", Undefined, <<"This is a page!">>, layout, Undefined,
           Undefined, Undefined, ext) :
        layout \in {"a"}, ext \in {Undefined, ".md", ".html"}}

DoLayout == /\ Alive
            /\ \E in \in LayoutInputs : SingularAdder("layout", in)

DoPage == /\ Alive
          /\ \E in \in PageInputs : SingularAdder("page", in)

DoApplyLayout ==
    /\ Alive
    /\ \E ext \in {".md", ".html"} : ApplyLayout(ext, "pages", "home")

DoRenderObject == /\ Alive
                  /\ \E in \in PageInputs : RenderObject(in)

NextLayout ==
    \/ DoLayout
    \/ DoPage
    \/ DoApplyLayout
    \/ DoRenderObject

SpecLayout == Init /\ [][NextLayout]_vars

----------------------------------------------------------------------------
(* Specification of extension resolution *)

\* The extension of the paths of the model.
PathExt == [p \in {"src/home.md"} |-> ".md"]

\* Render objects with or without a path and a declared ext.
ExtInputs ==
    {Input("home", path, <<"hello">>, Undefined, Undefined, Undefined,
           Undefined, ext) :
        path \in {Undefined, "src/home.md"}, ext \in {Undefined, ".md", ".hbs"}}

\* Locals passed to render, with or without an ext and an engine.
ExtLocals ==
    {Locals(Undefined, ext, engine, Undefined) :
        ext \in {Undefined, ".html"}, engine \in {Undefined, ".hbs"}}

DoExtRender ==
    /\ Alive
    /\ \E in \in ExtInputs, locals \in ExtLocals : RenderWith(in, locals)

DoViewEngine ==
    /\ Alive
    /\ \E ext \in {".*", "html"} :
          ext # options.viewEngine /\ SetOption("viewEngine", ext)

NextExt == DoExtRender \/ DoViewEngine

SpecExt == Init /\ [][NextExt]_vars

----------------------------------------------------------------------------
(* Specification of delimiter resolution *)

\* Render objects of one type that declare delimiters or none.
DelimsInputs ==
    {WithDelims(Input("home", Undefined, <<"hello">>, Undefined, Undefined,
                      Undefined, Undefined, ext), dl) :
        ext \in {".md", ".html"}, dl \in {Undefined, "<< >>", "{{ }}"}}

DoDelimsRender ==
    /\ Alive
    /\ \E in \in DelimsInputs : RenderWith(in, NoLocals)

DoAddDelims ==
    /\ Alive
    /\ \E ext \in {".md"}, dl \in {"[[ ]]"} : AddDelims(ext, dl)

NextDelims == DoDelimsRender \/ DoAddDelims

SpecDelims == Init /\ [][NextDelims]_vars

----------------------------------------------------------------------------
(* Specification of the render context *)

\* Render objects with or without a name in their data and their locals.
ContextInputs ==
    {WithNames(Input("home", Undefined, <<"hello">>, Undefined, Undefined,
                     Undefined, Undefined, ".md"), dataName, localsName) :
        dataName \in {Undefined, "AAA"}, localsName \in {Undefined, "BBB"}}

\* Locals passed to render, with or without a name.
ContextLocals ==
    {Locals(name, Undefined, Undefined, Undefined) : name \in {Undefined, "CCC"}}

\* Partials, with or without a name in their data.
PartialInputs ==
    {WithNames(Input("nav", Undefined, <<"navigation">>, Undefined, Undefined,
                     Undefined, Undefined, ".md"), dataName, Undefined) :
        dataName \in {Undefined, "PPP"}}

DoContextRender ==
    /\ Alive
    /\ \E in \in ContextInputs, locals \in ContextLocals : RenderWith(in, locals)

DoSetData ==
    /\ Alive
    /\ data.name = Undefined
    /\ SetData("DDD")

DoContextOption ==
    /\ Alive
    /\ \E key \in {"preferLocals", "mergePartials"} :
          SetOption(key, ~options[key])

DoPartial ==
    /\ Alive
    /\ \E in \in PartialInputs : SingularAdder("partial", in)

\* A custom partial type and a record of it.
DoIncludeType ==
    /\ Alive
    /\ ~hasOwn(cache, "includes")
    /\ Create("include", PluralArg("string", "includes"), NoRole)

DoInclude ==
    /\ Alive
    /\ SingularAdder("include",
                     Input("footer", Undefined, <<"the footer">>, Undefined,
                           Undefined, Undefined, Undefined, ".md"))

NextContext ==
    \/ DoContextRender
    \/ DoSetData
    \/ DoContextOption
    \/ DoPartial
    \/ DoIncludeType
    \/ DoInclude

SpecContext == Init /\ [][NextContext]_vars

----------------------------------------------------------------------------
(* Specification of the engines and of failing renders *)

\* Engines the application registers: with and without a renderSync.
EngineInputs == {EngineObject("custom", sync) : sync \in BOOLEAN}

\* Render objects with and without a declared ext, with one helper call or
\* none.
EngineRenders ==
    {Input("home", Undefined, content, Undefined, Undefined, Undefined,
           Undefined, ext) :
        content \in {<<"hello">>, <<"hello", IncludeLink>>},
        ext \in {Undefined, ".md"}}

\* Locals passed to a render, with or without a named engine.
EngineLocals ==
    {Locals(Undefined, Undefined, engine, Undefined) :
        engine \in {Undefined, "md"}}

DoEngine ==
    /\ Alive
    /\ \E ext \in {"md", "*"}, engine \in EngineInputs : Engine(ext, engine)

DoEnginePartial ==
    /\ Alive
    /\ SingularAdder("partial",
                     Input("link", Undefined, <<"https://github.com">>,
                           Undefined, Undefined, Undefined, Undefined, ".md"))

\* Locals passed to a render, with or without a name and a named engine.
SyncLocals ==
    {Locals(name, Undefined, engine, Undefined) :
        name \in {Undefined, "CCC"}, engine \in {Undefined, "md"}}

DoRenderSync ==
    /\ Alive
    /\ \E in \in EngineRenders, locals \in SyncLocals,
          fault \in {"none", "throws"} : RenderSync(in, locals, fault)

DoRenderAsync ==
    /\ Alive
    /\ \E in \in EngineRenders, locals \in SyncLocals :
          Render(in, locals, "none", "undefined")

DoRender ==
    /\ Alive
    /\ \E in \in EngineRenders, locals \in EngineLocals, fault \in Faults,
          resolved \in ResolveOutcomes : Render(in, locals, fault, resolved)

DoRenderString ==
    /\ Alive
    /\ RenderName("hello")

DoCacheOption ==
    /\ Alive
    /\ SetOption("cache", ~options.cache)

DoCallbackRender ==
    /\ Alive
    /\ \E in \in EngineRenders, locals \in SyncLocals, sync \in BOOLEAN :
          RenderCallbackThrows(in, locals, sync)

NextCallback == DoEnginePartial \/ DoCallbackRender \/ DoRenderAsync

SpecCallback == Init /\ [][NextCallback]_vars

NextSync == DoEngine \/ DoEnginePartial \/ DoRenderSync \/ DoRenderAsync

SpecSync == Init /\ [][NextSync]_vars

NextEngine ==
    \/ DoEngine
    \/ DoEnginePartial
    \/ DoRender
    \/ DoRenderString
    \/ DoCacheOption

SpecEngine == Init /\ [][NextEngine]_vars

----------------------------------------------------------------------------
(* Specification of the layout registries *)

\* Extensions with (.md) and without (.txt) a layout registry after init().
PrimeExts == {".md", ".txt"}

\* Layouts that declare one of the extensions.
PrimeLayouts ==
    {Input(name, Undefined, <<Above[name], Body, Below[name]>>, Undefined,
           Undefined, Undefined, Undefined, ext) :
        name \in {"a", "b"}, ext \in PrimeExts}

DoPrimeEngine ==
    /\ Alive
    /\ \E ext \in PrimeExts, engine \in EngineInputs : Engine(ext, engine)

DoPrimeDelims ==
    /\ Alive
    /\ \E ext \in PrimeExts, dl \in {"<< >>", "[[ ]]"} : AddDelims(ext, dl)

DoPrimeLayoutDelims ==
    /\ Alive
    /\ \E ext \in PrimeExts, dl \in {"<< >>", "[[ ]]"} :
          AddLayoutDelims(ext, dl)

DoPrimeLayout ==
    /\ Alive
    /\ \E in \in PrimeLayouts : SingularAdder("layout", in)

NextPrime ==
    \/ DoPrimeEngine
    \/ DoPrimeDelims
    \/ DoPrimeLayoutDelims
    \/ DoPrimeLayout

SpecPrime == Init /\ [][NextPrime]_vars

----------------------------------------------------------------------------
(* Specification of the inclusion helpers *)

\* The layouts of the page and of the partial, each under one extension.
HelperLayouts ==
    {Input(name, Undefined, <<Above[name], Body, Below[name]>>, Undefined,
           Undefined, Undefined, Undefined, ext) :
        name \in {"a", "b"}, ext \in {".md", ".html"}}

\* The partial the pages include: it declares the layout b.
LinkInput ==
    Input("link", Undefined, <<"https://github.com">>, "b", Undefined,
          Undefined, Undefined, ".md")

\* Pages whose body calls the helper for a stored or for an unknown key.
HelperPages ==
    {Input("home", Undefined, <<"This is home page content.", call>>, "a",
           Undefined, Undefined, Undefined, ext) :
        call \in {IncludeLink, IncludeMissing}, ext \in {".md", ".html"}}

DoHelperLayout ==
    /\ Alive
    /\ \E in \in HelperLayouts : SingularAdder("layout", in)

DoHelperPartial ==
    /\ Alive
    /\ SingularAdder("partial", LinkInput)

DoHelperRender ==
    /\ Alive
    /\ \E in \in HelperPages : RenderWith(in, NoLocals)

NextHelper == DoHelperLayout \/ DoHelperPartial \/ DoHelperRender

SpecHelper == Init /\ [][NextHelper]_vars

----------------------------------------------------------------------------
(* Specification of the render stages *)

\* Pages that name the layout a, with or without a declared ext, whose body
\* is text alone or calls the helper for the stored partial.
StagePages ==
    {Input("home", Undefined, content, "a", Undefined, Undefined, Undefined,
           ext) :
        content \in {<<"This is home page content.">>,
                     <<"This is home page content.", IncludeLink>>},
        ext \in {Undefined, ".md"}}

DoStagesRender ==
    /\ Alive
    /\ \E in \in StagePages, fault \in Faults, resolved \in ResolveOutcomes :
          Render(in, NoLocals, fault, resolved)

NextStages == DoHelperLayout \/ DoHelperPartial \/ DoStagesRender

SpecStages == Init /\ [][NextStages]_vars

----------------------------------------------------------------------------
(* Specification of the default layout *)

\* Pages that declare no layout, whose body is text alone or calls the
\* helper for the stored partial, which declares no layout either.
DefaultPages ==
    {Input("home", Undefined, content, Undefined, Undefined, Undefined,
           Undefined, ".md") :
        content \in {<<"This is home page content.">>,
                     <<"This is home page content.", IncludeLink>>}}

DoDefaultOption ==
    /\ Alive
    /\ \E name \in {Null, "a", "b"} :
          name # options.layout /\ SetOption("layout", name)

DoDefaultRender ==
    /\ Alive
    /\ \E in \in DefaultPages : RenderWith(in, NoLocals)

NextDefault ==
    \/ DoHelperLayout
    \/ DoEnginePartial
    \/ DoDefaultOption
    \/ DoDefaultRender

SpecDefault == Init /\ [][NextDefault]_vars

----------------------------------------------------------------------------
(* Specification of repeated renders *)

\* The page the renders name: it declares the layout a.
RepeatPages ==
    {Input("home", Undefined, <<"This is a page!">>, "a", Undefined,
           Undefined, Undefined, ext) : ext \in {".md", ".html"}}

DoRepeatPage ==
    /\ Alive
    /\ \E in \in RepeatPages : SingularAdder("page", in)

DoRepeatRender ==
    /\ Alive
    /\ RenderName("home")

NextRepeat ==
    \/ DoHelperLayout
    \/ DoRepeatPage
    \/ DoRepeatRender
    \/ DoCacheOption

SpecRepeat == Init /\ [][NextRepeat]_vars

----------------------------------------------------------------------------
(* Properties of the type registry and its accessors *)

\* The renderable collections that hold the key.
RenderableHolding(key) ==
    {p \in Range(templateType.renderable) : hasOwn(cache[p], key)}

\* C1: with caching enabled, render(name) for a name that is a key of a
\* renderable collection returns the rendered content of the stored record;
\* it neither fails nor renders the name as literal content.
C1_RenderByNameUsesStoredRecord ==
    (ret.op = "render" /\ ret.target = "name" /\ options.cache
        /\ RenderableHolding(ret.key) # {})
    => (ret.kind = "return"
        /\ \E p \in RenderableHolding(ret.key) :
              ret.value = cache[p][ret.key].content)

\* The path an adder is to give a record: the declared one, else the key.
ExpectedPath(in) == IF in.path = Undefined THEN in.key ELSE in.path

\* The content of the input starts with a front-matter block.
HasFrontMatter(in) == in.content # <<>> /\ IsFrontMatter(Head(in.content))

\* C2: after an adder was called with key k and content c without front
\* matter, the collection maps k to a record with content c whose path is
\* the declared path or else k, and the getter returns the stored record.
C2_AdderStoresRecord ==
    /\ ret.op = "add" =>
          \A in \in ret.args :
              ~HasFrontMatter(in) =>
                 /\ hasOwn(cache[ret.target], in.key)
                 /\ cache[ret.target][in.key].content = in.content
                 /\ cache[ret.target][in.key].path = ExpectedPath(in)
    /\ (ret.op = "get" /\ hasOwn(cache[ret.target], ret.key)) =>
          ret.recs = {cache[ret.target][ret.key]}

\* C3: create throws for every plural that is not a non-empty string, so
\* every create call that returned was given a non-empty string.
C3_CreateRejectsEveryBadPlural ==
    \A i \in DOMAIN created :
        created[i].typeof = "string" /\ created[i].plural # ""

\* C4: a create call for a plural that already has a collection leaves
\* every record of that collection as it was.
C4_RecreateKeepsRecords ==
    [][created' # created =>
          LET plural == created'[Len(created')].plural
          IN  hasOwn(cache, plural) =>
                 \A k \in DOMAIN cache[plural] :
                     /\ hasOwn(cache'[plural], k)
                     /\ cache'[plural][k] = cache[plural][k]]_vars

\* A plural was created again while its collection held records.
C4_Witness ==
    /\ ret.op = "create" /\ ret.kind = "return"
    /\ DOMAIN cache[ret.target] # {}

\* The role options of the create calls made for the plural.
DeclaredWith(plural) ==
    {created[i].options : i \in {j \in DOMAIN created : created[j].plural = plural}}

C6_AccessorReturnsCollection ==
    ret.op = "plural" => ret.colls = {cache[ret.target]}

----------------------------------------------------------------------------
(* Properties of the layout resolver *)

RECURSIVE ChainFrom(_, _, _)
\* The layouts reached from `name` by following each layout's own layout
\* through the collection, each taken once.
ChainFrom(collection, name, seen) ==
    IF ~hasOwn(collection, name) \/ name \in seen THEN <<>>
    ELSE <<name>> \o ChainFrom(collection, layoutOf(collection[name]),
                               seen \cup {name})

RECURSIVE Cyclic(_, _, _)
\* Following the layouts from `name` comes back to a layout already seen.
Cyclic(collection, name, seen) ==
    IF ~hasOwn(collection, name) THEN FALSE
    ELSE IF name \in seen THEN TRUE
    ELSE Cyclic(collection, layoutOf(collection[name]), seen \cup {name})

\* The chain from `name` is not empty, is acyclic and ends in a layout that
\* names none.
ProperChain(collection, name) ==
    LET chain == ChainFrom(collection, name, {})
    IN  /\ chain # <<>>
        /\ ~Cyclic(collection, name, {})
        /\ layoutOf(collection[chain[Len(chain)]]) = Undefined

RECURSIVE Nested(_, _)
\* The content between the markers of each layout of the chain: the first
\* layout innermost, the last outermost, each once.
Nested(chain, content) ==
    IF chain = <<>> THEN content
    ELSE Nested(Tail(chain),
                <<Above[Head(chain)]>> \o content \o <<Below[Head(chain)]>>)

\* C7: for a record whose layout starts an acyclic chain of layouts, the
\* rendered content is the record's content nested in the chain's layouts,
\* the last outermost, each layout once.
C7_ChainIsNested ==
    (ret.op = "render" /\ ret.target = "anonymous") =>
        \A in \in ret.args :
            ProperChain(cache["layouts"], in.layout) =>
               /\ ret.kind = "return"
               /\ ret.value = Nested(ChainFrom(cache["layouts"], in.layout, {}),
                                     in.content)

\* C8: rendering a record whose layout lies on a cycle of the layouts of
\* its extension ends with a layout-cycle error for the caller.
C8_CycleIsAnError ==
    (ret.op = "render" /\ ret.target = "anonymous") =>
        \A in \in ret.args :
            (/\ hasOwn(layoutSettings, in.options.ext)
             /\ Cyclic(layoutSettings[in.options.ext], in.layout, {}))
            => (ret.kind = "throw" /\ ret.err = "LayoutCycleError")

\* C9: two applyLayout calls in a row on the same record with the same
\* extension return the same composed content.
C9_ApplyLayoutTwiceSame ==
    [][(/\ ret.op = "applyLayout" /\ ret'.op = "applyLayout"
        /\ ret.kind = "return" /\ ret'.kind = "return"
        /\ ret'.target = ret.target /\ ret'.key = ret.key
        /\ ret'.ext = ret.ext)
       => ret'.value = ret.value]_vars

\* The layout name the record is to resolve to: its own layout, then
\* data.layout, then locals.layout, then the default layout option, which
\* is null when no default is configured.
ClaimedLayout(rec) ==
    IF rec.layout # Undefined THEN rec.layout
    ELSE IF rec.data.layout # Undefined THEN rec.data.layout
    ELSE IF rec.locals.layout # Undefined THEN rec.locals.layout
    ELSE options.layout

\* C10: the layout name picked for a record is the first present of
\* record.layout, record.data.layout, record.locals.layout and the default
\* layout option; with none present it is null and the content is returned
\* unwrapped.
C10_LayoutPrecedence ==
    /\ ret.op = "pickLayout" =>
          ret.value = <<ClaimedLayout(cache[ret.target][ret.key])>>
    /\ (ret.op = "applyLayout" /\ ret.kind = "return"
            /\ ClaimedLayout(cache[ret.target][ret.key]) = Null) =>
          ret.value = cache[ret.target][ret.key].content

\* C11: a render object that names a stored layout is wrapped by that
\* layout even when the layout was added under another extension than the
\* one the object declares.
C11_LayoutWrapsAcrossExtensions ==
    (ret.op = "render" /\ ret.target = "anonymous") =>
        \A in \in ret.args :
            (/\ in.options.ext # Undefined
             /\ ProperChain(cache["layouts"], in.layout)
             /\ cache["layouts"][in.layout].options.ext # in.options.ext)
            => (/\ ret.kind = "return"
                /\ \E i \in DOMAIN ret.value : ret.value[i] = Above[in.layout])

----------------------------------------------------------------------------
(* Properties of extension and delimiter resolution *)

\* The extension a render is to resolve: the call's engine or ext, then the
\* record's options.engine or options.ext, then the extension of its path,
\* then the default view engine.
ClaimedExt(in, locals) ==
    IF locals.engine # Undefined THEN locals.engine
    ELSE IF locals.ext # Undefined THEN locals.ext
    ELSE IF in.options.engine # Undefined THEN in.options.engine
    ELSE IF in.options.ext # Undefined THEN in.options.ext
    ELSE IF in.path \in DOMAIN PathExt THEN PathExt[in.path]
    ELSE formatExt(options.viewEngine)

\* C12: the extension resolved for a render is the first present of the
\* render call's ext/engine, the record's options.engine/options.ext, the
\* extension of the record's path and the default view engine.
C12_ExtPrecedence ==
    (ret.op = "render" /\ ret.target = "anonymous") =>
        \A in \in ret.args : \A locals \in ret.locals :
            ret.ext = ClaimedExt(in, locals)

\* The delimiters a render is to hand to the engine: the record's own, then
\* those stored for the resolved extension, then the global default pair.
ClaimedDelims(in, ext) ==
    IF in.options.delims # Undefined THEN in.options.delims
    ELSE IF hasOwn(delims, ext) THEN delims[ext]
    ELSE delims["*"]

\* C13: the delimiters handed to the engine are the first present of the
\* record's own, those of its type, those stored for the resolved extension
\* and the global default pair; they are never undefined.
C13_DelimsPrecedence ==
    (ret.op = "render" /\ ret.kind = "return") =>
        \A in \in ret.args :
            /\ ret.delims = ClaimedDelims(in, ret.ext)
            /\ ret.delims # Undefined

----------------------------------------------------------------------------
(* Properties of the render context *)

\* C15: for a key in both the record's data and the record's locals, the
\* context handed to the engine holds the value from data with preferLocals
\* off and the value from locals with preferLocals on.
C15_PreferLocalsDecides ==
    (ret.op = "render" /\ ret.kind = "return") =>
        \A in \in ret.args : \A ctx \in ret.context :
            (in.data.name # Undefined /\ in.locals.name # Undefined) =>
                ctx.name = IF options.preferLocals
                              THEN in.locals.name ELSE in.data.name

\* The value the record itself gives the key: from its data or its locals.
RecordName(in) ==
    IF options.preferLocals THEN Either(in.locals.name, in.data.name)
    ELSE Either(in.data.name, in.locals.name)

\* C16: for a key in the locals passed to render, the context holds the
\* record's value when the record's data or locals have the key, and the
\* passed value when only the process-wide data has it.
C16_RecordOverCallOverData ==
    [][(nextId' # nextId /\ ret'.op = "render" /\ ret'.kind = "return") =>
          \A in \in ret'.args : \A locals \in ret'.locals :
              \A ctx \in ret'.context :
                  locals.name # Undefined =>
                     IF RecordName(in) # Undefined
                        THEN ctx.name = RecordName(in)
                        ELSE data.name # Undefined => ctx.name = locals.name]_vars

\* The contents of the records of a partial type, by key.
ContentsOf(plural) == [k \in DOMAIN cache[plural] |-> cache[plural][k].content]

\* C17: building the context does not fail; with mergePartials on, the
\* context holds the content of every record of every partial type in the
\* map `partials`, and with mergePartials off it holds one map per partial
\* type, named after the plural.
C17_PartialsInContext ==
    (ret.op = "render" /\ ret.target = "anonymous") =>
        \A in \in ret.args :
            in.options.ext # Undefined =>
               /\ ret.kind = "return"
               /\ \A ctx \in ret.context :
                     \A plural \in Range(templateType.partial) :
                         IF options.mergePartials
                            THEN \A k \in DOMAIN cache[plural] :
                                    /\ hasOwn(ctx.maps["partials"], k)
                                    /\ ctx.maps["partials"][k]
                                          = cache[plural][k].content
                            ELSE /\ hasOwn(ctx.maps, plural)
                                 /\ ctx.maps[plural] = ContentsOf(plural)

----------------------------------------------------------------------------
(* Properties of the inclusion helpers *)

RECURSIVE Substitute(_, _, _)
\* The content with each occurrence of the call replaced by the text.
Substitute(content, call, text) ==
    IF content = <<>> THEN <<>>
    ELSE (IF Head(content) = call THEN text ELSE <<Head(content)>>)
         \o Substitute(Tail(content), call, text)

\* C18: when a page's body includes a stored partial that declares its own
\* layout, the output is the page's content, with the partial's content
\* wrapped by the partial's layout in place of the call, wrapped once by
\* the page's layout.
C18_IncludedPartialKeepsItsLayout ==
    (ret.op = "render" /\ ret.target = "anonymous") =>
        \A in \in ret.args :
            (/\ IncludeLink \in Range(in.content)
             /\ hasOwn(cache["partials"], "link")
             /\ hasOwn(cache["layouts"], cache["partials"]["link"].layout)
             /\ hasOwn(cache["layouts"], in.layout))
            => (/\ ret.kind = "return"
                /\ ret.value =
                      Nested(<<in.layout>>,
                             Substitute(in.content, IncludeLink,
                                        Nested(<<cache["partials"]["link"].layout>>,
                                               cache["partials"]["link"].content))))

\* C19: the record an inclusion helper renders has the locals the helper
\* was called with in its render context.
C19_HelperLocalsInContext ==
    (ret.op = "render" /\ ret.kind = "return") =>
        \A in \in ret.args :
            (IncludeLink \in Range(in.content)
                /\ hasOwn(cache["partials"], "link")) =>
               /\ ret.inner # {}
               /\ \A ctx \in ret.inner :
                     ctx.name = HelperCalls[IncludeLink].locals.name

\* C20: an inclusion helper called with a key its collection does not hold
\* yields the empty string: the render returns the page's output with
\* nothing in place of the call.
C20_UnknownKeyYieldsEmpty ==
    (ret.op = "render" /\ ret.target = "anonymous") =>
        \A in \in ret.args :
            (/\ IncludeMissing \in Range(in.content)
             /\ ~hasOwn(cache["partials"], HelperCalls[IncludeMissing].key)
             /\ hasOwn(layoutSettings[in.options.ext], in.layout))
            => (/\ ret.kind = "return"
                /\ ret.value = Nested(<<in.layout>>,
                                      Substitute(in.content, IncludeMissing, <<>>)))

\* C21: a renderSync call whose resolved engine has no renderSync function
\* ends with an error: it calls neither function of the engine and it
\* returns no rendered string.
C21_NoRenderSyncIsAnError ==
    (/\ ret.op = "renderSync"
     /\ \E l \in ret.locals : ~resolveEngine(engines, l, ret.ext).renderSync)
    => /\ ret.kind = "throw"
       /\ ret.err # Undefined
       /\ ret.calls = {}
       /\ ret.value = <<>>

\* A renderSync call got through preprocess and found no renderSync.
C21_Witness ==
    /\ ret.op = "renderSync"
    /\ ret.err = NoRenderSync
    /\ \E l \in ret.locals : ~resolveEngine(engines, l, ret.ext).renderSync

\* C22: renderSync never throws: whatever fails on the synchronous path,
\* the error is returned to the caller as a value.
C22_RenderSyncReturnsErrors ==
    (ret.op = "renderSync" /\ ret.kind = "throw") => ret.via = "return"

\* C23: when the engine's asynchronous render reports an error through its
\* callback, render hands that error to the caller's callback and reports
\* no success.
C23_ReportedErrorReachesCallback ==
    (ret.op = "render" /\ ret.fault = "reports")
    => /\ ret.kind = "throw"
       /\ ret.via = "callback"
       /\ ret.err = EngineError

\* C24: no failure of a render escapes render() as a throw: an exception
\* raised while the template is resolved, the layout applied, the context
\* built or the engine run is handed to the caller's callback.
C24_RenderNeverThrows ==
    (ret.op = "render" /\ ret.kind = "throw") => ret.via = "callback"

\* C25: render and renderSync of a record that has no path fail with an
\* error before the engine is invoked.
C25_RenderRequiresPath ==
    (/\ ret.op \in {"render", "renderSync"}
     /\ \E a \in ret.args : a.path = Undefined)
    => /\ ret.kind = "throw"
       /\ ret.calls = {}

\* The keys utils.generateId can have made so far.
GeneratedKeys == {generateId(n) : n \in 0..nextId}

\* C26: rendering content that names no cached record accumulates nothing:
\* the anonymous collection holds at most the entry of the most recent
\* render, and no collection of a declared type holds a generated entry.
C26_AnonymousHoldsLastOnly ==
    /\ Cardinality(DOMAIN cache["anonymous"]) <= 1
    /\ ret.op \in {"render", "renderSync"}
          => DOMAIN cache["anonymous"] \subseteq {ret.key}
    /\ \A p \in DOMAIN cache \ {"anonymous"} :
          DOMAIN cache[p] \cap GeneratedKeys = {}

\* C27: a render or renderSync call, with the helper calls made during it,
\* leaves the data and the locals of every stored record as they were.
C27_RendersLeaveRecordsAlone ==
    [][ret'.op \in {"render", "renderSync"}
       => \A p \in DOMAIN cache : \A k \in DOMAIN cache[p] :
             /\ cache'[p][k].data = cache[p][k].data
             /\ cache'[p][k].locals = cache[p][k].locals]_vars

\* A render given locals with a name has returned after its content called
\* the helper, with locals of its own, for the stored partial.
C27_Witness ==
    /\ ret.op \in {"render", "renderSync"}
    /\ ret.kind = "return"
    /\ \E l \in ret.locals : l.name # Undefined
    /\ \E a \in ret.args : IncludeLink \in Range(a.content)
    /\ hasOwn(cache["partials"], "link")
    /\ ret.inner # {}

\* The last create of the type that returned on this instance.
LastCreate(type) ==
    LET i == CHOOSE j \in DOMAIN created :
                 /\ created[j].type = type
                 /\ \A m \in DOMAIN created : created[m].type = type => m <= j
    IN  created[i]

\* C28: whatever other instances create, once this instance has created
\* the type doc its accessor doc adds the record to the collection this
\* instance named, with the options this instance gave.
C28_InstancesDoNotInterfere ==
    (/\ ret.op = "add"
     /\ ret.kind = "return"
     /\ \E j \in DOMAIN created : created[j].type = "doc")
    => /\ ret.target = LastCreate("doc").plural
       /\ \A in \in ret.args :
             /\ hasOwn(cache[LastCreate("doc").plural], in.key)
             /\ cache[LastCreate("doc").plural][in.key].options.isRenderable
                    = LastCreate("doc").options.isRenderable

HasLeadingFrontMatter(m) ==
    \E k \in DOMAIN m :
        m[k].content # <<>> /\ IsFrontMatter(Head(m[k].content))

StacksAfter(ps, ext, fn, sync) ==
    [e \in ParserExts |->
        [s \in BOOLEAN |->
            IF formatExt(e) = formatExt(ext) /\ s = sync
               THEN Append(getParsers(ps, e, s), fn)
               ELSE getParsers(ps, e, s)]]

\* C30: every key of the parser registry begins with a dot, and after a
\* parser or parserSync registration getParsers returns, for the ext given
\* with or without its dot, the parsers of the requested kind registered
\* for it in the order of their registration: the new function is last in
\* the stack of its ext and kind and no other stack changes.
C30_ParserStacksByKindInOrder ==
    [][/\ DOMAIN parsers' \subseteq Range([e \in DOMAIN Dotted |-> Dotted[e]])
       /\ ret'.op \in {"parser", "parserSync"}
             => [e \in ParserExts |->
                    [s \in BOOLEAN |-> getParsers(parsers', e, s)]]
                = StacksAfter(parsers, ret'.target, ret'.key,
                              ret'.op = "parserSync")
       /\ ret'.op \notin {"parser", "parserSync"} => parsers' = parsers]_vars

\* Under one ext, given with and without its dot, a parser and a sync
\* parser are registered after an earlier one, and getParsers was asked
\* for the sync ones.
C30_Witness ==
    /\ ret.op = "getParsers sync"
    /\ ret.target = "a"
    /\ hasOwn(parsers, ".a")
    /\ Len(parsers[".a"]) = 3
    /\ Len(ret.value) = 2
    /\ Len(getParsers(parsers, ".a", FALSE)) = 1

----------------------------------------------------------------------------
(* Properties of the render stages *)

\* The place of a step in an order of steps.
PlaceIn(order, step) == CHOOSE i \in DOMAIN order : order[i] = step

\* The steps follow one another as the order has them.
FollowsOrder(stages, order) ==
    \A i, j \in DOMAIN stages :
        i < j => PlaceIn(order, stages[i]) <= PlaceIn(order, stages[j])

C32_ParseAppliesStackInOrder ==
    /\ ret.op = "parse" =>
          /\ ret.kind = "return"
          /\ \A a \in ret.args : \A r \in ret.recs :
                IF DOMAIN a = {}
                   THEN ret.value # <<>> => DOMAIN r # {}
                   ELSE r.content = a.content \o ret.value
    /\ ret.op = "runParser" =>
          \A a \in ret.args : \A r \in ret.recs :
              /\ DOMAIN r # {}
              /\ DOMAIN a # {} => r.content = a.content \o ret.value

\* C33: a record added with an ext for which no parser stack is registered
\* is stored as the universal stack (the sync parsers registered under *)
\* leaves it: the universal stack was run on it.
C33_UniversalStackIsTheFallback ==
    (ret.op = "add" /\ ret.kind = "return") =>
        \A in \in ret.args :
            ~hasOwn(parsers, formatExt(in.options.ext)) =>
               /\ hasOwn(cache[ret.target], in.key)
               /\ cache[ret.target][in.key].content =
                     runStack(Loader(in)[in.key],
                              getParsers(parsers, "*", TRUE)).content

\* The record is registered under its key in the layout registry of the ext.
RegisteredLayout(ext, in) ==
    /\ hasOwn(layoutSettings, ext)
    /\ hasOwn(layoutSettings[ext], in.key)
    /\ layoutSettings[ext][in.key].content = in.content

\* C34: after a record was added to a type, it is registered in the layout
\* registry of its resolved ext if and only if the type has the layout
\* role; and every registered layout is a record of a type with that role.
C34_LayoutsRegisteredIffLayoutType ==
    /\ ret.op = "add" =>
          \A in \in ret.args :
              RegisteredLayout(ClaimedExt(in, NoLocals), in)
                 <=> proto.plural[ret.target].isLayout
    /\ \A ext \in DOMAIN layoutSettings : \A k \in DOMAIN layoutSettings[ext] :
          \E p \in Range(templateType.layout) :
              /\ hasOwn(cache[p], k)
              /\ cache[p][k] = layoutSettings[ext][k]

\* C35: once an engine or a delimiter set was registered for an ext, there
\* is a layout registry for that ext; and no registration of an engine, of
\* delimiters or of a record removes a registry or a layout registered in
\* it: every layout of every registry is still in that registry afterwards.
C35_RegistriesPrimedOnceAndKept ==
    [][/\ ret'.op \in {"engine", "addDelims"}
             => hasOwn(layoutSettings', ret'.target)
       /\ \A ext \in DOMAIN layoutSettings :
             /\ hasOwn(layoutSettings', ext)
             /\ \A k \in DOMAIN layoutSettings[ext] :
                   hasOwn(layoutSettings'[ext], k)]_vars

\* C36: when a default layout is configured and registered for the ext, a
\* rendered page that declares no layout is delivered wrapped by the
\* default layout, and the partial it includes, which declares no layout,
\* stands in it unwrapped.
C36_DefaultLayoutForRenderablesOnly ==
    (ret.op = "render" /\ ret.target = "anonymous") =>
        \A in \in ret.args :
            (/\ ClaimedLayout(in) = options.layout
             /\ hasOwn(layoutSettings[ret.ext], options.layout)
             /\ IncludeLink \in Range(in.content)
                    => hasOwn(cache["partials"], "link"))
            => /\ ret.kind = "return"
               /\ ret.value =
                     Nested(<<options.layout>>,
                            Substitute(in.content, IncludeLink,
                                       IF hasOwn(cache["partials"], "link")
                                          THEN cache["partials"]["link"].content
                                          ELSE <<>>))

\* What a render of the stored record is to deliver: its content, wrapped
\* by the layout it names when that layout is registered for its ext.
WrappedContent(rec) ==
    IF hasOwn(layoutSettings[rec.options.ext], rec.layout)
       THEN Nested(<<rec.layout>>, rec.content)
       ELSE rec.content

\* C37: every render of a cached page by its name, the first and each
\* later one alike, delivers the same output: the page's content wrapped by
\* the layout the page names.
C37_RepeatedRenderSameOutput ==
    (/\ ret.op = "render" /\ ret.target = "name"
     /\ options.cache
     /\ hasOwn(cache["pages"], ret.key))
    => /\ ret.kind = "return"
       /\ ret.value = WrappedContent(cache["pages"][ret.key])

\* C38: render invokes the caller's callback at most once in every call,
\* whether the engine calls back before or after engine.render returns and
\* whether or not the callback throws.
C38_CallbackAtMostOnce ==
    callbackCount(ret.op, ret.stages) <= 1

\* C39: a render call leaves the process-wide data as it was, so a key that
\* only the call-site locals or the rendered record gave is in the context
\* of no later render of another record.
C39_RenderKeepsData ==
    [][(nextId' # nextId /\ ret'.op = "render") => data' = data]_vars

\* C40: a render call leaves the delimiter registry as it was, so a later
\* render of a record of the same extension that declares no delimiters
\* gets the delimiters registered for the extension before the call.
C40_RenderKeepsDelims ==
    [][(nextId' # nextId /\ ret'.op = "render") => delims' = delims]_vars

====
